---- MODULE Spec2Model ----
(***************************************************************************)
(* Model of the datastore matcher: the agentic tool-use loop               *)
(* (python_agent/agentic_orchestrator.py), the tool client                 *)
(* (python_agent/mcp_client_wrapper.py) and the version resolver           *)
(* (mcp_server/tools/endoflife_lookup.py).                                 *)
(*                                                                         *)
(* Python strings are sequences of one-character strings.  Offsets are     *)
(* 0-based as in Python; a TLA+ sequence index is offset + 1.              *)
(***************************************************************************)
EXTENDS Integers, Sequences, FiniteSets, TLC

VARIABLES
    max_iterations,  \* run_agentic_loop: the max_iterations argument
    session,         \* MCPClientWrapper.session: "none" or "open"
    iteration,       \* run_agentic_loop: the loop variable
    pc,              \* position of the running function
    messages,        \* run_agentic_loop: the transcript
    content,         \* response.content of the response being handled
    block,           \* index of the next content block of the tool_use branch
    tool_results,    \* run_agentic_loop: tool_results of this iteration
    returned,        \* <<>> while running, <<value>> once the function returned
    completions,     \* log: outcome of every completion call, in order
    executed,        \* log: every mcp_client.call_tool invocation, in order
    version,         \* normalize_version: the argument
    normalized,      \* normalize_version: results of successive applications
    target_version,  \* find_closest_version: the target argument
    available_versions, \* find_closest_version: the candidate list
    match,           \* <<>> until find_closest_version returned, then <<result>>
    product,         \* endoflife_lookup: the product argument
    max_retries,     \* call_endoflife_api: the max_retries argument
    attempt,         \* call_endoflife_api: the loop variable
    api_log,         \* log: every requests.get outcome and time.sleep, in order
    api_response,    \* <<>> until call_endoflife_api ended, then <<outcome>>
    lookup_result,   \* <<>> until endoflife_lookup returned, then <<result>>
    product_name,    \* normalize_product_name: the argument
    other_name,      \* normalize_product_name: the argument of a second call
    api_product,     \* <<>> until both calls returned, then their two results
    files,           \* the file system: what each path holds
    _reference_list, \* ACATReferenceCache._reference_list
    _loaded,         \* ACATReferenceCache._loaded
    file_reads,      \* log: the path of every pd.read_excel call, in order
    load_results,    \* log: every get_acat_reference call and its result
    tool_name,       \* a tool invocation: the tool name
    arguments,       \* a tool invocation: the arguments
    tool_reply,      \* <<>> until session.call_tool ended, then <<what it did>>
    tool_outcome,    \* <<>> until MCPClientWrapper.call_tool ended, then <<outcome>>
    user_datastores, \* the input datastore names of a run
    match_results,   \* agent.main: match_results
    low_confidence_matches, \* agent.main: indices of the matches to enrich
    eol_results,     \* agent.main: eol_results
    item,            \* agent.main: index of the next item of the running loop
    lookups,         \* log: every endoflife_lookup call of agent.main
    output_files     \* the lists written by ExcelWriter, by file

vars == <<max_iterations, session, iteration, pc, messages, content, block,
          tool_results, returned, completions, executed, version, normalized,
          target_version, available_versions, match, product, max_retries,
          attempt, api_log, api_response, lookup_result, product_name,
          other_name, api_product, files, _reference_list, _loaded, file_reads,
          load_results, tool_name, arguments, tool_reply, tool_outcome,
          user_datastores, match_results, low_confidence_matches, eol_results,
          item, lookups, output_files>>

loopVars == <<max_iterations, session, iteration, messages, content, block,
              tool_results, completions, executed>>

versionVars == <<version, normalized>>

resolveVars == <<target_version, available_versions, match>>

\* the state of the functions of the tool server
apiVars == <<product, max_retries, attempt, api_log, api_response, lookup_result>>

productVars == <<product_name, other_name, api_product>>

cacheVars == <<files, _reference_list, _loaded, file_reads, load_results>>

toolVars == <<tool_name, arguments, tool_reply, tool_outcome>>

\* the locals of agent.main and the files it writes
mainVars == <<match_results, low_confidence_matches, eol_results, item, lookups,
              output_files>>

agentVars == <<user_datastores, mainVars>>

otherVars == <<productVars, cacheVars, toolVars, agentVars>>

serverVars == <<versionVars, resolveVars, apiVars, otherVars>>

\* no endoflife_lookup call is in progress
ApiIdle ==
    /\ product = <<>>
    /\ max_retries = 0
    /\ attempt = 0
    /\ api_log = <<>>
    /\ api_response = <<>>
    /\ lookup_result = <<>>

\* no normalize_product_name call is in progress
ProductIdle ==
    /\ product_name = <<>>
    /\ other_name = <<>>
    /\ api_product = <<>>

\* the reference cache as constructed, on an empty file system
CacheIdle ==
    /\ files = <<>>
    /\ _reference_list = <<>>
    /\ _loaded = FALSE
    /\ file_reads = <<>>
    /\ load_results = <<>>

\* no tool invocation is in progress
ToolIdle ==
    /\ tool_name = ""
    /\ arguments = <<>>
    /\ tool_reply = <<>>
    /\ tool_outcome = <<>>

\* agent.main is not running
MainIdle ==
    /\ match_results = <<>>
    /\ low_confidence_matches = <<>>
    /\ eol_results = <<>>
    /\ item = 0
    /\ lookups = <<>>
    /\ output_files = <<>>

AgentIdle == user_datastores = <<>> /\ MainIdle

(***************************************************************************)
(* Bounds of the model.                                                    *)
(***************************************************************************)
MaxIterations == 2

MaxBlocks == 2

MaxToolCalls == 3

MaxTextLen == 6

MaxVersionLen == 5

(***************************************************************************)
(* Python string primitives.                                               *)
(***************************************************************************)
RECURSIVE Chars(_)
\* The characters of a text given as a sequence of tokens (each token a
\* sequence of characters).
Chars(tokens) ==
    IF tokens = <<>> THEN <<>> ELSE Head(tokens) \o Chars(Tail(tokens))

SeqsUpTo(S, n) == UNION {[1..k -> S] : k \in 0..n}

Min(S) == CHOOSE m \in S : \A k \in S : m <= k

\* str.find(sub, start): lowest offset >= start where sub occurs, else -1.
find(s, sub, start) ==
    LET hits == {i \in start..(Len(s) - Len(sub)) :
                    \A k \in 1..Len(sub) : s[i + k] = sub[k]}
    IN  IF hits = {} THEN -1 ELSE Min(hits)

\* sub in s
contains(s, sub) == find(s, sub, 0) # -1

\* s[a:b] for a >= 0; a negative b counts from the end.
slice(s, a, b) ==
    LET hi == IF b < 0 THEN (IF Len(s) + b < 0 THEN 0 ELSE Len(s) + b)
              ELSE (IF b > Len(s) THEN Len(s) ELSE b)
    IN  IF a >= hi THEN <<>> ELSE SubSeq(s, a + 1, hi)

IsSpace(c) == c = " "

RECURSIVE lstrip(_)
lstrip(s) == IF s # <<>> /\ IsSpace(Head(s)) THEN lstrip(Tail(s)) ELSE s

RECURSIVE rstrip(_)
rstrip(s) ==
    IF s # <<>> /\ IsSpace(s[Len(s)]) THEN rstrip(SubSeq(s, 1, Len(s) - 1)) ELSE s

\* str.strip()
strip(s) == rstrip(lstrip(s))

(***************************************************************************)
(* json.loads on texts over the characters [ ] 1 and space (any other      *)
(* character is a syntax error).  A parsed value is its Python type and    *)
(* its canonical text (the text without insignificant whitespace).         *)
(***************************************************************************)
IsDigit(c) == c = "1"

RECURSIVE SkipWs(_, _)
\* index of the first non-whitespace character at or after index i
SkipWs(s, i) == IF i <= Len(s) /\ IsSpace(s[i]) THEN SkipWs(s, i + 1) ELSE i

RECURSIVE SkipDigits(_, _)
SkipDigits(s, i) == IF i <= Len(s) /\ IsDigit(s[i]) THEN SkipDigits(s, i + 1) ELSE i

RECURSIVE ParseValue(_, _)
\* index after the JSON value that starts at index i (after whitespace),
\* 0 when no value starts there
ParseValue(s, i) ==
    LET j == SkipWs(s, i)
    IN  IF j > Len(s) THEN 0
        ELSE IF IsDigit(s[j]) THEN SkipDigits(s, j)
        ELSE IF s[j] = "[" THEN
            LET k == SkipWs(s, j + 1)
            IN  IF k > Len(s) THEN 0
                ELSE IF s[k] = "]" THEN k + 1
                ELSE LET m == ParseValue(s, k)
                     IN  IF m = 0 THEN 0
                         ELSE LET n == SkipWs(s, m)
                              IN  IF n <= Len(s) /\ s[n] = "]" THEN n + 1 ELSE 0
        ELSE 0

RECURSIVE DropSpaces(_)
DropSpaces(s) ==
    IF s = <<>> THEN <<>>
    ELSE IF IsSpace(Head(s)) THEN DropSpaces(Tail(s))
    ELSE <<Head(s)>> \o DropSpaces(Tail(s))

\* json.loads(s): the parsed value, or JSONDecodeError
json_loads(s) ==
    LET e == ParseValue(s, 1)
    IN  IF e # 0 /\ SkipWs(s, e) = Len(s) + 1
        THEN [raised |-> "none",
              value |-> [pytype |-> IF s[SkipWs(s, 1)] = "[" THEN "list" ELSE "int",
                         repr |-> DropSpaces(s)]]
        ELSE [raised |-> "JSONDecodeError"]

(***************************************************************************)
(* AgenticOrchestrator._extract_final_answer                               *)
(***************************************************************************)
\* the backtick character is written "~" (a string cannot hold a backtick)
Backtick == "~"

Fence == <<Backtick, Backtick, Backtick>>

FenceJson == Fence \o <<"j", "s", "o", "n">>

TextBlock(t) == [type |-> "text", text |-> t]

ToolUseBlock(id) == [type |-> "tool_use", id |-> id]

\* index of the first block of type text, 0 when there is none
FirstTextBlock(blocks) ==
    LET idx == {i \in 1..Len(blocks) : blocks[i].type = "text"}
    IN  IF idx = {} THEN 0 ELSE Min(idx)

\* faulty variant: the labelled fence is skipped by the width of a bare fence
json_text_LabelKept(text) ==
    IF contains(text, FenceJson) THEN
        LET json_start == find(text, FenceJson, 0) + 3
            json_end == find(text, Fence, json_start)
        IN  strip(slice(text, json_start, json_end))
    ELSE IF contains(text, Fence) THEN
        LET json_start == find(text, Fence, 0) + 3
            json_end == find(text, Fence, json_start)
        IN  strip(slice(text, json_start, json_end))
    ELSE strip(text)

\* json_text: the part of the text handed to json.loads
json_text(text) ==
    IF contains(text, FenceJson) THEN
        LET json_start == find(text, FenceJson, 0) + 7
            json_end == find(text, Fence, json_start)
        IN  strip(slice(text, json_start, json_end))
    ELSE IF contains(text, Fence) THEN
        LET json_start == find(text, Fence, 0) + 3
            json_end == find(text, Fence, json_start)
        IN  strip(slice(text, json_start, json_end))
    ELSE strip(text)

\* faulty variant: the isinstance(results, list) test is missing
AnswerFromText_NoListCheck(text) ==
    LET parsed == json_loads(json_text(text))
    IN  IF parsed.raised = "none"
        THEN [status |-> "success", results |-> parsed.value]
        ELSE [status |-> "error",
              error |-> <<"JSON parse error: ", parsed.raised>>,
              raw_response |-> text]

\* the return value for the first text block
AnswerFromText(text) ==
    LET parsed == json_loads(json_text(text))
    IN  IF parsed.raised = "none" THEN
            IF parsed.value.pytype = "list"
            THEN [status |-> "success", results |-> parsed.value]
            ELSE [status |-> "error",
                  error |-> <<"Results not in expected format">>,
                  raw_response |-> text]
        ELSE [status |-> "error",
              error |-> <<"JSON parse error: ", parsed.raised>>,
              raw_response |-> text]

\* faulty variant: a text block that holds no array is passed over when a
\* later text block holds one
_extract_final_answer_TriesLater(content_blocks) ==
    LET i == FirstTextBlock(content_blocks)
        good == {k \in 1..Len(content_blocks) :
                    /\ content_blocks[k].type = "text"
                    /\ AnswerFromText(content_blocks[k].text).status = "success"}
    IN  IF good # {} THEN AnswerFromText(content_blocks[Min(good)].text)
        ELSE IF i # 0 THEN AnswerFromText(content_blocks[i].text)
        ELSE [status |-> "error",
              error |-> <<"No text content in response">>,
              results |-> <<>>]

_extract_final_answer(content_blocks) ==
    LET i == FirstTextBlock(content_blocks)
    IN  IF i # 0 THEN AnswerFromText(content_blocks[i].text)
        ELSE [status |-> "error",
              error |-> <<"No text content in response">>,
              results |-> <<>>]

(***************************************************************************)
(* MCPClientWrapper.call_tool and the serialisation of its result          *)
(***************************************************************************)
PyDict(items) == [pytype |-> "dict", items |-> items]

PySet(items) == [pytype |-> "set", items |-> items]

\* What session.call_tool does: it raises, or it returns a result whose
\* content is a list of text items.
ServerReplies ==
    { [kind |-> "raise", content |-> <<>>],
      [kind |-> "result", content |-> <<>>],
      [kind |-> "result", content |-> <<[text |-> "{status: success}"]>>],
      [kind |-> "result", content |-> <<[text |-> "{1, 2}"]>>],
      [kind |-> "result", content |-> <<[text |-> "<html>"]>>] }

\* get_acat_reference.py lines 28-31 and 67-70: the result of a load
ReferenceResult(list) == [reference_list |-> list, total_count |-> Len(list)]

\* get_acat_reference.py lines 35-41 and 74-80: the result of a failed load
LoadFailure(error_type, detail) ==
    [status |-> "error", error_type |-> error_type, error_message |-> detail,
     reference_list |-> <<>>, total_count |-> 0]

\* ACAT_REFERENCE_FILE (mcp_server/config.py)
MasterFile == "ACAT_Data_Stores_Master.xlsx"

\* a result of status not_found or error as the tool server builds it
ToolFailure(status, error_type, error_message) ==
    PyDict([status |-> status, error_type |-> error_type,
            error_message |-> error_message])

\* the results of the tool functions used below, each with its str()
ReprRows ==
    << [value |-> PyDict(ReferenceResult(<<<<"B">>>>)),
        text |-> "{'reference_list': ['B'], 'total_count': 1}"],
       [value |-> PyDict(LoadFailure("FILE_NOT_FOUND", MasterFile)),
        text |-> "{'status': 'error', 'error_type': 'FILE_NOT_FOUND', 'error_message': 'ACAT reference file not found: ACAT_Data_Stores_Master.xlsx', 'reference_list': [], 'total_count': 0}"],
       [value |-> PyDict(LoadFailure("LOAD_ERROR", "read_excel")),
        text |-> "{'status': 'error', 'error_type': 'LOAD_ERROR', 'error_message': 'Failed to load ACAT reference: read_excel', 'reference_list': [], 'total_count': 0}"],
       [value |-> ToolFailure("error", "INVALID_INPUT", "Arguments required: product and version"),
        text |-> "{'status': 'error', 'error_type': 'INVALID_INPUT', 'error_message': 'Arguments required: product and version'}"],
       [value |-> ToolFailure("error", "INVALID_INPUT", "Product name is required"),
        text |-> "{'status': 'error', 'error_type': 'INVALID_INPUT', 'error_message': 'Product name is required'}"],
       [value |-> ToolFailure("error", "INVALID_INPUT", "Version is required"),
        text |-> "{'status': 'error', 'error_type': 'INVALID_INPUT', 'error_message': 'Version is required'}"],
       [value |-> ToolFailure("not_found", "PRODUCT_NOT_FOUND", "Product not found"),
        text |-> "{'status': 'not_found', 'error_type': 'PRODUCT_NOT_FOUND', 'error_message': 'Product not found'}"],
       [value |-> ToolFailure("error", "TIMEOUT", "Connection timeout after 30 seconds"),
        text |-> "{'status': 'error', 'error_type': 'TIMEOUT', 'error_message': 'Connection timeout after 30 seconds'}"],
       [value |-> PyDict([status |-> "success", matched_version |-> "7", match_type |-> "EXACT"]),
        text |-> "{'status': 'success', 'matched_version': '7', 'match_type': 'EXACT'}"],
       [value |-> ToolFailure("error", "UNKNOWN_TOOL", "Tool not found"),
        text |-> "{'status': 'error', 'error_type': 'UNKNOWN_TOOL', 'error_message': 'Tool not found'}"] >>

\* str(result) of a tool result
repr(result) ==
    ReprRows[CHOOSE i \in 1..Len(ReprRows) : ReprRows[i].value = result].text

\* ast.literal_eval on the texts above
literal_eval(text) ==
    CASE text = "{status: success}" ->
            [raised |-> "none", value |-> PyDict([status |-> "success"])]
      [] \E i \in 1..Len(ReprRows) : ReprRows[i].text = text ->
            [raised |-> "none",
             value |-> ReprRows[CHOOSE i \in 1..Len(ReprRows) : ReprRows[i].text = text].value]
      [] text = "{1, 2}" ->
            [raised |-> "none", value |-> PySet({1, 2})]
      [] OTHER -> [raised |-> "SyntaxError"]

call_tool(sess, reply) ==
    IF sess = "none" THEN
        [raised |-> "RuntimeError",
         msg |-> "Not connected to MCP server. Call connect() first."]
    ELSE IF reply.kind = "raise" THEN
        [raised |-> "none",
         value |-> PyDict([status |-> "error", error_type |-> "CLIENT_ERROR",
                           error_message |-> "session.call_tool failed"])]
    ELSE IF Len(reply.content) > 0 THEN
        LET text_content == reply.content[1].text
            parsed == literal_eval(text_content)
        IN  IF parsed.raised = "none"
            THEN [raised |-> "none", value |-> parsed.value]
            ELSE [raised |-> "none", value |-> PyDict([raw_response |-> text_content])]
    ELSE [raised |-> "none", value |-> PyDict([error |-> "Empty response from tool"])]

\* json.dumps of a tool result: a set is not serialisable
json_dumps(value) ==
    IF value.pytype = "set"
    THEN [raised |-> "TypeError",
          msg |-> "Object of type set is not JSON serializable"]
    ELSE [raised |-> "none", text |-> <<"json", value.items>>]

\* lines 157-166: call the tool, serialise what it returned
ToolOutcome(sess, reply) ==
    LET r == call_tool(sess, reply)
    IN  IF r.raised # "none" THEN r ELSE json_dumps(r.value)

(***************************************************************************)
(* What the completion service may answer.                                 *)
(***************************************************************************)
Commentary == <<"s", "o">>

\* identifier of the tool_use block at position p of the c-th response
ToolUseId(c, p) == 10 * c + p

BlockKinds == {"text", "tool_use"}

ContentOf(kinds, c) ==
    [p \in 1..Len(kinds) |->
        IF kinds[p] = "text" THEN TextBlock(Commentary)
        ELSE ToolUseBlock(ToolUseId(c, p))]

\* contents of the c-th response when it asks for tools
ToolUseContents(c) == {ContentOf(kinds, c) : kinds \in SeqsUpTo(BlockKinds, MaxBlocks)}

ToolUseCount(blocks) == Cardinality({i \in 1..Len(blocks) : blocks[i].type = "tool_use"})

GoodText == FenceJson \o <<" ", "[", "1", "]">> \o Fence

FinalTexts ==
    { Commentary \o GoodText,
      <<"[", " ", "]">>,
      <<"1">>,
      Commentary,
      Fence \o <<"[", "1", "]">> }

\* contents of a response that ends the turn
FinalContents(c) ==
    {<<>>, <<ToolUseBlock(ToolUseId(c, 1))>>}
    \cup {<<TextBlock(t)>> : t \in FinalTexts}
    \cup {<<TextBlock(t), TextBlock(GoodText)>> : t \in FinalTexts}

OtherStopReasons == {"max_tokens", "stop_sequence"}

OtherContents == {<<>>, <<TextBlock(Commentary)>>}

\* exceptions client.messages.create may raise, with their str()
CompletionErrors ==
    { [type |-> "APIConnectionError", msg |-> "Connection error."],
      [type |-> "RateLimitError", msg |-> "Error code: 429"] }

(***************************************************************************)
(* AgenticOrchestrator.run_agentic_loop                                    *)
(***************************************************************************)
UserPrompt == <<"Match the following datastore names against ACAT reference data">>

\* the most input datastore names of a run
MaxDatastores == 2

\* input datastore names: one with a version, one without
DatastoreNames == {<<"R", "e", "d", "i", "s", " ", "7">>, <<"R", "e", "d", "i", "s">>}

\* the user_datastores argument
DatastoreLists == SeqsUpTo(DatastoreNames, MaxDatastores)

AssistantMessage(c) == [role |-> "assistant", content |-> c]

ErrorReturn(text) == [status |-> "error", error |-> text, results |-> <<>>]

\* faulty variant: the incomplete outcome carries no diagnostic
IncompleteReturn_NoDiagnostic == [status |-> "incomplete", results |-> <<>>]

IncompleteReturn ==
    [status |-> "incomplete", error |-> <<"Max iterations reached">>, results |-> <<>>]

\* faulty variant: the loop stops one iteration early
InRange_OffByOne(i, n) == i + 1 < n

\* range(max_iterations) has a next value
InRange(i, n) == i < n

\* index of the next tool_use block at or after index from, 0 when none is left
NextToolUse(blocks, from) ==
    LET idx == {i \in from..Len(blocks) : blocks[i].type = "tool_use"}
    IN  IF idx = {} THEN 0 ELSE Min(idx)

\* lines 78-118: the state when run_agentic_loop is entered with the given
\* user_datastores
LoopStart(datastores) ==
    /\ max_iterations \in 0..MaxIterations
    /\ session \in {"none", "open"}
    /\ iteration = 0
    /\ pc = "call"
    /\ messages = <<[role |-> "user", content |-> UserPrompt]>>
    /\ content = <<>>
    /\ block = 1
    /\ tool_results = <<>>
    /\ returned = <<>>
    /\ completions = <<>>
    /\ executed = <<>>
    /\ version = <<>>
    /\ normalized = <<>>
    /\ target_version = <<>>
    /\ available_versions = <<>>
    /\ match = <<>>
    /\ ApiIdle
    /\ ProductIdle
    /\ CacheIdle
    /\ ToolIdle
    /\ user_datastores = datastores
    /\ MainIdle

\* a run on one datastore name
InitLoop == LoopStart(<<<<"R", "e", "d", "i", "s", " ", "7">>>>)

\* a run on any list of datastore names
InitRun == \E datastores \in DatastoreLists : LoopStart(datastores)

\* lines 123-142: the response signals end_turn
ModelEndTurn ==
    /\ pc = "call"
    /\ InRange(iteration, max_iterations)
    /\ \E c \in FinalContents(Len(completions) + 1) :
        /\ completions' = Append(completions, [stop_reason |-> "end_turn", exc |-> "none", msg |-> ""])
        /\ messages' = Append(messages, AssistantMessage(c))
        /\ content' = c
        /\ returned' = <<_extract_final_answer(c)>>
    /\ pc' = "done"
    /\ UNCHANGED <<max_iterations, session, iteration, block, tool_results, executed>>
    /\ UNCHANGED serverVars

\* lines 123-146: the response signals tool_use
ModelToolUse ==
    /\ pc = "call"
    /\ InRange(iteration, max_iterations)
    /\ \E c \in ToolUseContents(Len(completions) + 1) :
        /\ Len(executed) + ToolUseCount(c) <= MaxToolCalls
        /\ completions' = Append(completions, [stop_reason |-> "tool_use", exc |-> "none", msg |-> ""])
        /\ messages' = Append(messages, AssistantMessage(c))
        /\ content' = c
    /\ tool_results' = <<>>
    /\ block' = 1
    /\ pc' = "tools"
    /\ UNCHANGED <<max_iterations, session, iteration, returned, executed>>
    /\ UNCHANGED serverVars

\* faulty variant: the else branch does not return and the loop goes on
ModelOtherStop_FallsThrough ==
    /\ pc = "call"
    /\ InRange(iteration, max_iterations)
    /\ \E sr \in OtherStopReasons, c \in OtherContents :
        /\ completions' = Append(completions, [stop_reason |-> sr, exc |-> "none", msg |-> ""])
        /\ messages' = Append(messages, AssistantMessage(c))
        /\ content' = c
    /\ iteration' = iteration + 1
    /\ UNCHANGED <<max_iterations, session, pc, block, tool_results, returned, executed>>
    /\ UNCHANGED serverVars

\* lines 123-136, 171-177: any other stop reason
ModelOtherStop ==
    /\ pc = "call"
    /\ InRange(iteration, max_iterations)
    /\ \E sr \in OtherStopReasons, c \in OtherContents :
        /\ completions' = Append(completions, [stop_reason |-> sr, exc |-> "none", msg |-> ""])
        /\ messages' = Append(messages, AssistantMessage(c))
        /\ content' = c
        /\ returned' = <<ErrorReturn(<<"Unexpected stop reason: ", sr>>)>>
    /\ pc' = "done"
    /\ UNCHANGED <<max_iterations, session, iteration, block, tool_results, executed>>
    /\ UNCHANGED serverVars

\* lines 123-130, 179-185: client.messages.create raises
ModelRaises ==
    /\ pc = "call"
    /\ InRange(iteration, max_iterations)
    /\ \E e \in CompletionErrors :
        /\ completions' = Append(completions, [stop_reason |-> "none", exc |-> e.type, msg |-> e.msg])
        /\ returned' = <<ErrorReturn(<<e.msg>>)>>
    /\ pc' = "done"
    /\ UNCHANGED <<max_iterations, session, iteration, messages, content, block,
                   tool_results, executed>>
    /\ UNCHANGED serverVars

\* what session.call_tool may do for this client
RepliesFor(sess) == IF sess = "none" THEN {[kind |-> "raise", content |-> <<>>]} ELSE ServerReplies

\* lines 148-166: the next tool_use block is executed and its result kept
ExecuteTool ==
    /\ pc = "tools"
    /\ NextToolUse(content, block) # 0
    /\ LET i == NextToolUse(content, block)
       IN  \E reply \in RepliesFor(session) :
            LET out == ToolOutcome(session, reply)
            IN  /\ out.raised = "none"
                /\ executed' = Append(executed, [call |-> Len(completions), id |-> content[i].id,
                                               raised |-> out.raised])
                /\ tool_results' = Append(tool_results,
                                          [type |-> "tool_result",
                                           tool_use_id |-> content[i].id,
                                           content |-> out.text])
                /\ block' = i + 1
    /\ UNCHANGED <<max_iterations, session, iteration, pc, messages, content,
                   returned, completions>>
    /\ UNCHANGED serverVars

\* lines 157-165, 179-185: call_tool or json.dumps raises
ToolRaises ==
    /\ pc = "tools"
    /\ NextToolUse(content, block) # 0
    /\ LET i == NextToolUse(content, block)
       IN  \E reply \in RepliesFor(session) :
            LET out == ToolOutcome(session, reply)
            IN  /\ out.raised # "none"
                /\ executed' = Append(executed, [call |-> Len(completions), id |-> content[i].id,
                                               raised |-> out.raised])
                /\ returned' = <<ErrorReturn(<<out.msg>>)>>
    /\ pc' = "done"
    /\ UNCHANGED <<max_iterations, session, iteration, messages, content, block,
                   tool_results, completions>>
    /\ UNCHANGED serverVars

\* faulty variant: the loop variable does not advance
AppendToolResults_NoAdvance ==
    /\ pc = "tools"
    /\ NextToolUse(content, block) = 0
    /\ messages' = Append(messages, [role |-> "user", content |-> tool_results])
    /\ pc' = "call"
    /\ UNCHANGED <<max_iterations, session, iteration, content, block, tool_results,
                   returned, completions, executed>>
    /\ UNCHANGED serverVars

\* faulty variant: the tool results replace the transcript instead of extending it
AppendToolResults_Overwrites ==
    /\ pc = "tools"
    /\ NextToolUse(content, block) = 0
    /\ messages' = <<[role |-> "user", content |-> tool_results]>>
    /\ iteration' = iteration + 1
    /\ pc' = "call"
    /\ UNCHANGED <<max_iterations, session, content, block, tool_results, returned,
                   completions, executed>>
    /\ UNCHANGED serverVars

\* faulty variant: no user turn is appended when no tool was executed
AppendToolResults_SkipsEmpty ==
    /\ pc = "tools"
    /\ NextToolUse(content, block) = 0
    /\ messages' = IF tool_results = <<>> THEN messages
                   ELSE Append(messages, [role |-> "user", content |-> tool_results])
    /\ iteration' = iteration + 1
    /\ pc' = "call"
    /\ UNCHANGED <<max_iterations, session, content, block, tool_results, returned,
                   completions, executed>>
    /\ UNCHANGED serverVars

\* lines 168-169: every block was visited; the results become one user turn
AppendToolResults ==
    /\ pc = "tools"
    /\ NextToolUse(content, block) = 0
    /\ messages' = Append(messages, [role |-> "user", content |-> tool_results])
    /\ iteration' = iteration + 1
    /\ pc' = "call"
    /\ UNCHANGED <<max_iterations, session, content, block, tool_results, returned,
                   completions, executed>>
    /\ UNCHANGED serverVars

\* lines 187-193: the range is exhausted
MaxIterationsReached ==
    /\ pc = "call"
    /\ ~InRange(iteration, max_iterations)
    /\ returned' = <<IncompleteReturn>>
    /\ pc' = "done"
    /\ UNCHANGED <<max_iterations, session, iteration, messages, content, block,
                   tool_results, completions, executed>>
    /\ UNCHANGED serverVars

Next ==
    \/ ModelEndTurn
    \/ ModelToolUse
    \/ ModelOtherStop
    \/ ModelRaises
    \/ ExecuteTool
    \/ ToolRaises
    \/ AppendToolResults
    \/ MaxIterationsReached

Spec == InitLoop /\ [][Next]_vars

\* the completion call and the tool call return, and the interpreter keeps running
FairSpec == Spec /\ WF_vars(Next)

\* run_agentic_loop over every list of input datastores
SpecRun == InitRun /\ [][Next]_vars

(***************************************************************************)
(* _extract_final_answer on its own, for every text up to MaxTextLen       *)
(* tokens.                                                                 *)
(***************************************************************************)
TextTokens == {Fence, <<"j", "s", "o", "n">>, <<" ">>, <<"[">>, <<"]">>, <<"1">>}

InitExtract ==
    /\ content \in {<<TextBlock(Chars(t))>> : t \in SeqsUpTo(TextTokens, MaxTextLen)}
    /\ pc = "extract"
    /\ returned = <<>>
    /\ max_iterations = 0
    /\ session = "none"
    /\ iteration = 0
    /\ messages = <<>>
    /\ block = 1
    /\ tool_results = <<>>
    /\ completions = <<>>
    /\ executed = <<>>
    /\ version = <<>>
    /\ normalized = <<>>
    /\ target_version = <<>>
    /\ available_versions = <<>>
    /\ match = <<>>
    /\ ApiIdle
    /\ ProductIdle
    /\ CacheIdle
    /\ ToolIdle
    /\ AgentIdle

ExtractFinalAnswer ==
    /\ pc = "extract"
    /\ returned' = <<_extract_final_answer(content)>>
    /\ pc' = "done"
    /\ UNCHANGED loopVars
    /\ UNCHANGED serverVars

NextExtract == ExtractFinalAnswer

SpecExtract == InitExtract /\ [][NextExtract]_vars

(***************************************************************************)
(* normalize_version (mcp_server/tools/endoflife_lookup.py)                *)
(***************************************************************************)
UpperCase == <<"A", "B", "C", "D", "E", "F", "G", "H", "I", "J", "K", "L", "M",
               "N", "O", "P", "Q", "R", "S", "T", "U", "V", "W", "X", "Y", "Z">>

LowerCase == <<"a", "b", "c", "d", "e", "f", "g", "h", "i", "j", "k", "l", "m",
               "n", "o", "p", "q", "r", "s", "t", "u", "v", "w", "x", "y", "z">>

\* str.lower() of one character
Lower(c) ==
    IF \E k \in 1..26 : UpperCase[k] = c
    THEN LowerCase[CHOOSE k \in 1..26 : UpperCase[k] = c]
    ELSE c

\* \d
IsDecimal(c) == c \in {"0", "1", "2", "3", "4", "5", "6", "7", "8", "9"}

\* word occurs in s at index i, letter case ignored (word is lower case)
MatchesAtIgnoreCase(s, i, word) ==
    /\ i + Len(word) - 1 <= Len(s)
    /\ \A k \in 1..Len(word) : Lower(s[i + k - 1]) = word[k]

\* re.sub(r'[.\-]x$', '', s)
StripWildcard(s) ==
    IF Len(s) >= 2 /\ s[Len(s)] = "x" /\ s[Len(s) - 1] \in {".", "-"}
    THEN SubSeq(s, 1, Len(s) - 2)
    ELSE s

\* re.sub(r'-log$', '', s, flags=re.IGNORECASE)
StripLog(s) ==
    IF Len(s) >= 4 /\ MatchesAtIgnoreCase(s, Len(s) - 3, <<"-", "l", "o", "g">>)
    THEN SubSeq(s, 1, Len(s) - 4)
    ELSE s

EditionWords ==
    { <<"e", "n", "t", "e", "r", "p", "r", "i", "s", "e">>,
      <<"s", "t", "a", "n", "d", "a", "r", "d">>,
      <<"e", "x", "p", "r", "e", "s", "s">>,
      <<"d", "e", "v", "e", "l", "o", "p", "e", "r">> }

\* (SP\d+|R\d+|Enterprise|Standard|Express|Developer) matches at index i
QualifierAt(s, i) ==
    \/ MatchesAtIgnoreCase(s, i, <<"s", "p">>) /\ i + 2 <= Len(s) /\ IsDecimal(s[i + 2])
    \/ MatchesAtIgnoreCase(s, i, <<"r">>) /\ i + 1 <= Len(s) /\ IsDecimal(s[i + 1])
    \/ \E w \in EditionWords : MatchesAtIgnoreCase(s, i, w)

\* \s+ followed by a qualifier matches from index i
EditionMatchAt(s, i) ==
    \E j \in i..Len(s) :
        /\ \A k \in i..j : IsSpace(s[k])
        /\ QualifierAt(s, j + 1)

\* re.sub(r'\s+(SP\d+|R\d+|Enterprise|Standard|Express|Developer).*$', '', s,
\*        flags=re.IGNORECASE): the leftmost match runs to the end of the text
StripEdition(s) ==
    LET starts == {i \in 1..Len(s) : EditionMatchAt(s, i)}
    IN  IF starts = {} THEN s ELSE SubSeq(s, 1, Min(starts) - 1)

\* offsets (indices) of the dots of s
DotIndices(s) == {i \in 1..Len(s) : s[i] = "."}

\* '.'.join(s.split('.')[:2]): the text before its second dot
FirstTwoParts(s) ==
    LET first == Min(DotIndices(s))
        later == {i \in DotIndices(s) : i > first}
    IN  IF later = {} THEN s ELSE SubSeq(s, 1, Min(later) - 1)

\* faulty variant: the -log suffix is stripped before the wildcard
normalize_version_LogFirst(v) ==
    LET v1 == StripLog(v)
        v2 == StripWildcard(v1)
        v3 == StripEdition(v2)
    IN  IF Cardinality(DotIndices(v3)) + 1 > 1
        THEN FirstTwoParts(v3)
        ELSE strip(v3)

normalize_version(v) ==
    LET v1 == StripWildcard(v)
        v2 == StripLog(v1)
        v3 == StripEdition(v2)
    IN  IF Cardinality(DotIndices(v3)) + 1 > 1
        THEN FirstTwoParts(v3)
        ELSE strip(v3)

VersionTokens ==
    { <<"1">>, <<".">>, <<"x">>, <<"-", "x">>, <<"-", "l", "o", "g">>,
      <<"-", "L", "O", "G">>, <<" ">>, <<"S", "P">> }

\* the versions named in the documentation of the resolver
ExampleVersions ==
    { <<"1", "4", ".", "6", ".", "2">>,
      <<"2", "0", "1", "9", "-", "l", "o", "g">>,
      <<"1", "4", ".", "x">>,
      <<" ", "1", "4", ".", "6">> }

InitNormalize ==
    /\ version \in {Chars(t) : t \in SeqsUpTo(VersionTokens, MaxVersionLen)}
                   \cup ExampleVersions
    /\ normalized = <<>>
    /\ pc = "normalize"
    /\ returned = <<>>
    /\ max_iterations = 0
    /\ session = "none"
    /\ iteration = 0
    /\ messages = <<>>
    /\ content = <<>>
    /\ block = 1
    /\ tool_results = <<>>
    /\ completions = <<>>
    /\ executed = <<>>
    /\ target_version = <<>>
    /\ available_versions = <<>>
    /\ match = <<>>
    /\ ApiIdle
    /\ ProductIdle
    /\ CacheIdle
    /\ ToolIdle
    /\ AgentIdle

\* normalize_version applied to the argument, then to its own result
NormalizeVersion ==
    /\ pc = "normalize"
    /\ Len(normalized) < 2
    /\ normalized' = Append(normalized,
                            normalize_version(IF normalized = <<>> THEN version
                                              ELSE normalized[Len(normalized)]))
    /\ UNCHANGED <<version, pc, returned>>
    /\ UNCHANGED loopVars
    /\ UNCHANGED resolveVars
    /\ UNCHANGED apiVars
    /\ UNCHANGED otherVars

NextNormalize == NormalizeVersion

SpecNormalize == InitNormalize /\ [][NextNormalize]_vars

(***************************************************************************)
(* Properties of run_agentic_loop (specifications Spec and FairSpec).      *)
(***************************************************************************)
calls == Len(completions)

Result == returned[1]

LastStop == IF calls = 0 THEN "none" ELSE completions[calls].stop_reason

AllToolUse == \A n \in 1..calls : completions[n].stop_reason = "tool_use"

NothingRaised ==
    /\ \A n \in 1..calls : completions[n].exc = "none"
    /\ \A k \in 1..Len(executed) : executed[k].raised = "none"

IdsOf(seq) == [i \in 1..Len(seq) |-> seq[i].id]

\* identifiers of the tool_use blocks of a content, in block order
ToolUseIdsOf(blocks) == IdsOf(SelectSeq(blocks, LAMBDA b : b.type = "tool_use"))

\* identifiers of the tool calls executed after the n-th completion call
ExecutedIn(n) == IdsOf(SelectSeq(executed, LAMBDA e : e.call = n))

IsPrefixOf(s, t) == Len(s) <= Len(t) /\ SubSeq(t, 1, Len(s)) = s

PayloadIsList(text) ==
    LET parsed == json_loads(json_text(text))
    IN  parsed.raised = "none" /\ parsed.value.pytype = "list"

\* C1: when every completion call answers tool_use and nothing raises, the
\* loop returns only after exactly max_iterations completion calls, and then
\* with status incomplete.
C1_AlwaysToolUseEndsIncomplete ==
    (AllToolUse /\ NothingRaised) =>
        /\ calls <= max_iterations
        /\ pc = "done" => (calls = max_iterations /\ Result.status = "incomplete")

C1_Witness ==
    /\ pc = "done"
    /\ AllToolUse /\ NothingRaised
    /\ max_iterations = MaxIterations
    /\ calls = max_iterations
    /\ Len(executed) >= 2
    /\ Result.status = "incomplete"

\* C2: whatever the completion service does, the loop reaches a terminal
\* outcome and never makes more than max_iterations completion calls.
C2_BoundedTermination ==
    /\ [](calls <= max_iterations)
    /\ <>(pc = "done")

C2_Witness ==
    /\ pc = "done"
    /\ max_iterations = MaxIterations
    /\ calls = max_iterations
    /\ LastStop \notin {"tool_use", "end_turn"}
    /\ Len(executed) >= 1

\* C3: every tool_use block of a tool_use response is executed exactly once,
\* in block order, before the next completion call, and one tool-results turn
\* then holds one result per call, in the same order, keyed by the call's
\* identifier.
C3_EveryToolUseBlockExecuted ==
    \A n \in 1..calls :
        completions[n].stop_reason = "tool_use" =>
            IF n = calls /\ pc = "tools"
            THEN IsPrefixOf(ExecutedIn(n), ToolUseIdsOf(content))
            ELSE /\ Len(messages) >= 2 * n + 1
                 /\ ExecutedIn(n) = ToolUseIdsOf(messages[2 * n].content)
                 /\ messages[2 * n + 1].role = "user"
                 /\ [i \in 1..Len(messages[2 * n + 1].content) |->
                        messages[2 * n + 1].content[i].tool_use_id]
                    = ToolUseIdsOf(messages[2 * n].content)

\* C4: an end_turn response ends the loop at that iteration with no further
\* completion or tool call; the status is success with the parsed value when
\* the payload of the first text block parses to a list, error otherwise.
C4_EndTurnReturns ==
    \A n \in 1..calls :
        completions[n].stop_reason = "end_turn" =>
            /\ n = calls
            /\ pc = "done"
            /\ ExecutedIn(n) = <<>>
            /\ LET c == messages[Len(messages)].content
                   i == FirstTextBlock(c)
               IN  IF i # 0 /\ PayloadIsList(c[i].text)
                   THEN /\ Result.status = "success"
                        /\ Result.results = json_loads(json_text(c[i].text)).value
                   ELSE Result.status = "error"

C4_Witness ==
    /\ pc = "done"
    /\ LastStop = "end_turn"
    /\ calls >= 2
    /\ Len(executed) >= 1
    /\ Result.status = "success"

\* C5: any other stop reason, or an exception of the completion call, ends the
\* loop at that iteration with status error carrying the stop reason or the
\* exception text, and no completion or tool call follows.
C5_OtherStopOrExceptionIsError ==
    \A n \in 1..calls :
        completions[n].stop_reason \notin {"end_turn", "tool_use"} =>
            /\ n = calls
            /\ pc = "done"
            /\ ExecutedIn(n) = <<>>
            /\ Result.status = "error"
            /\ IF completions[n].exc = "none"
               THEN Result.error = <<"Unexpected stop reason: ", completions[n].stop_reason>>
               ELSE Result.error = <<completions[n].msg>>

C5_Witness ==
    /\ pc = "done"
    /\ calls >= 2
    /\ Len(executed) >= 1
    /\ LastStop \in OtherStopReasons
    /\ Result.status = "error"

\* C6: a failing tool call never ends the loop: the outcome of every executed
\* tool call is in the transcript (or in the results being collected), and a
\* run ends with status error only after an end_turn response (parse failure)
\* or a failure of the completion service.
C6_ToolFailureNeverTerminates ==
    /\ \A k \in 1..Len(executed) :
          \/ \E m \in 1..Len(messages) :
                /\ messages[m].role = "user" /\ m > 1
                /\ \E i \in 1..Len(messages[m].content) :
                      messages[m].content[i].tool_use_id = executed[k].id
          \/ /\ pc = "tools"
             /\ \E i \in 1..Len(tool_results) : tool_results[i].tool_use_id = executed[k].id
    /\ (pc = "done" /\ Result.status = "error") => LastStop # "tool_use"

C9_TranscriptAppendOnly == [][IsPrefixOf(messages, messages')]_vars

C9_Witness ==
    /\ Len(messages) = 2 * MaxIterations + 1
    /\ messages[Len(messages)].role = "user"
    /\ Len(messages[Len(messages)].content) >= 1

(***************************************************************************)
(* Properties of _extract_final_answer (specification SpecExtract).        *)
(***************************************************************************)
\* the text the function was given
AnswerText == content[1].text

\* sub occurs in s at offset o
OccursAt(s, sub, o) ==
    /\ o >= 0
    /\ o + Len(sub) <= Len(s)
    /\ \A k \in 1..Len(sub) : s[o + k] = sub[k]

RECURSIVE FenceOffsets(_, _)
\* offsets of the fences of s at or after offset from, read left to right
FenceOffsets(s, from) ==
    LET f == find(s, Fence, from)
    IN  IF f = -1 THEN <<>> ELSE <<f>> \o FenceOffsets(s, f + 3)

\* content of a fenced block: what follows the opening fence and its json label
BlockContent(body) ==
    IF OccursAt(body, <<"j", "s", "o", "n">>, 0) THEN slice(body, 4, Len(body)) ELSE body

\* contents of the fenced blocks of s: the first fence opens a block, the next
\* closes it, the third opens the next block, and so on
FencedBlocks(s) ==
    LET fs == FenceOffsets(s, 0)
    IN  {BlockContent(slice(s, fs[2 * k - 1] + 3, fs[2 * k])) : k \in 1..(Len(fs) \div 2)}

IsArrayText(t) ==
    LET parsed == json_loads(strip(t))
    IN  parsed.raised = "none" /\ parsed.value.pytype = "list"

\* C8 as stated: a text that holds a fenced block whose content is a
\* well-formed array gives success with exactly that array; a text whose
\* payload is not well-formed gives error with the text as raw_response.
C8_AnyFencedArrayExtracted ==
    pc = "done" =>
        /\ (\E b \in FencedBlocks(AnswerText) : IsArrayText(b)) =>
              /\ Result.status = "success"
              /\ \E b \in FencedBlocks(AnswerText) :
                    IsArrayText(b) /\ Result.results = json_loads(strip(b)).value
        /\ json_loads(json_text(AnswerText)).raised # "none" =>
              /\ Result.status = "error"
              /\ Result.raw_response = AnswerText

\* the opening marker the function selects: the first labelled fence, or the
\* first fence when the text holds no labelled fence; [at, width] or none
SelectedMarkers(s) ==
    LET labelled == {o \in 0..Len(s) : OccursAt(s, FenceJson, o)}
        bare == {o \in 0..Len(s) : OccursAt(s, Fence, o)}
    IN  IF labelled # {} THEN {[at |-> Min(labelled), width |-> Len(FenceJson)]}
        ELSE IF bare # {} THEN {[at |-> Min(bare), width |-> Len(Fence)]}
        ELSE {}

\* C8 amended: when the text between the first labelled fence (the first fence
\* when there is no labelled one) and the next fence after it is a well-formed
\* array, the outcome is success with exactly that array; a text whose payload
\* is not well-formed gives error with the text as raw_response.
C8_SelectedFencedArrayExtracted ==
    pc = "done" =>
        /\ \A m \in SelectedMarkers(AnswerText) :
              \A q \in (m.at + m.width)..Len(AnswerText) :
                  ( /\ OccursAt(AnswerText, Fence, q)
                    /\ \A o \in (m.at + m.width)..(q - 1) : ~OccursAt(AnswerText, Fence, o)
                    /\ IsArrayText(slice(AnswerText, m.at + m.width, q)) )
                  => /\ Result.status = "success"
                     /\ Result.results =
                            json_loads(strip(slice(AnswerText, m.at + m.width, q))).value
        /\ json_loads(json_text(AnswerText)).raised # "none" =>
              /\ Result.status = "error"
              /\ Result.raw_response = AnswerText

C8_Witness ==
    /\ pc = "done"
    /\ AnswerText = FenceJson \o <<"[", "1", "]">> \o Fence
    /\ Result.status = "success"
    /\ Result.results.repr = <<"[", "1", "]">>

(***************************************************************************)
(* Properties of normalize_version (specification SpecNormalize).          *)
(***************************************************************************)
\* C10: normalize_version is idempotent: applied to its own result it returns
\* that result.
C10_NormalizeIdempotent ==
    Len(normalized) = 2 => normalized[2] = normalized[1]

\* the first result of normalize_version
Normalized1 == normalized[1]

NoSurroundingSpace(t) == t = <<>> \/ (~IsSpace(t[1]) /\ ~IsSpace(t[Len(t)]))

\* C11: the result of normalize_version has no leading and no trailing
\* whitespace, whatever the number of dot-separated components of the input.
C11_ResultTrimmed ==
    Len(normalized) >= 1 => NoSurroundingSpace(Normalized1)

AllDecimal(t) == t # <<>> /\ \A k \in 1..Len(t) : IsDecimal(t[k])

LogSuffixes == {<<"-", "l", "o", "g">>, <<"-", "L", "O", "G">>}

WildcardSuffixes == {<<".", "x">>, <<"-", "x">>}

MaxCandidates == 3

\* s.split('.')[0]: the text before the first dot
FirstPart(s) ==
    IF DotIndices(s) = {} THEN s ELSE SubSeq(s, 1, Min(DotIndices(s)) - 1)

\* len(s.split('.'))
PartCount(s) == Cardinality(DotIndices(s)) + 1

\* s.split('.')[1], for a text with a dot: the text after the first dot, up
\* to the second dot
SecondPart(s) ==
    LET first == Min(DotIndices(s))
        later == {i \in DotIndices(s) : i > first}
    IN  SubSeq(s, first + 1, IF later = {} THEN Len(s) ELSE Min(later) - 1)

\* s.startswith(prefix)
startswith(s, prefix) ==
    Len(prefix) <= Len(s) /\ SubSeq(s, 1, Len(prefix)) = prefix

DigitValue(c) ==
    CASE c = "0" -> 0 [] c = "1" -> 1 [] c = "2" -> 2 [] c = "3" -> 3 [] c = "4" -> 4
      [] c = "5" -> 5 [] c = "6" -> 6 [] c = "7" -> 7 [] c = "8" -> 8 [] c = "9" -> 9

RECURSIVE DecimalValue(_)
DecimalValue(digits) ==
    IF digits = <<>> THEN 0
    ELSE 10 * DecimalValue(SubSeq(digits, 1, Len(digits) - 1)) + DigitValue(digits[Len(digits)])

\* float(p) for a text of digits, signs, spaces and letters that spell no
\* float literal: the value of an optionally signed run of digits with
\* whitespace around it, ValueError for anything else
float(p) ==
    LET t == strip(p)
        signed == t # <<>> /\ t[1] \in {"-", "+"}
        digits == IF signed THEN Tail(t) ELSE t
    IN  IF digits # <<>> /\ \A k \in 1..Len(digits) : IsDecimal(digits[k])
        THEN [raised |-> "none",
              value |-> IF signed /\ t[1] = "-" THEN 0 - DecimalValue(digits)
                        ELSE DecimalValue(digits)]
        ELSE [raised |-> "ValueError"]

RECURSIVE Pow2(_)
\* 2 ** n
Pow2(n) == IF n = 0 THEN 1 ELSE 2 * Pow2(n - 1)

Abs(n) == IF n < 0 THEN 0 - n ELSE n

(* Python floats are IEEE doubles.  A double of the model is a sign and a   *)
(* magnitude <<i, a, b, c>> that stands for i + a/2^20 + b/2^40 + c/2^60,  *)
(* exact for every double below 4096 that is 0 or at least 2^-7; the       *)
(* operations round to 53 significant bits, to nearest, ties to even.      *)
\* 2^20
Limb == 1048576

RECURSIVE FloorLog2(_)
FloorLog2(n) == IF n < 2 THEN 0 ELSE 1 + FloorLog2(n \div 2)

MagLess(x, y) == \E k \in 1..4 : x[k] < y[k] /\ \A j \in 1..(k - 1) : x[j] = y[j]

MagAdd(x, y) ==
    LET c == x[4] + y[4]
        b == x[3] + y[3] + c \div Limb
        a == x[2] + y[2] + b \div Limb
    IN  <<x[1] + y[1] + a \div Limb, a % Limb, b % Limb, c % Limb>>

\* x - y for y not above x
MagSub(x, y) ==
    LET c == x[4] - y[4]
        cb == IF c < 0 THEN 1 ELSE 0
        b == x[3] - y[3] - cb
        bb == IF b < 0 THEN 1 ELSE 0
        a == x[2] - y[2] - bb
        ab == IF a < 0 THEN 1 ELSE 0
    IN  <<x[1] - y[1] - ab, a + ab * Limb, b + bb * Limb, c + cb * Limb>>

\* the weight of the last of the 53 significant bits of m in units of 2^-60;
\* 0 when m has no bit below it
LastBitUnit(m) ==
    IF m[1] >= 1 THEN Pow2(8 + FloorLog2(m[1]))
    ELSE IF FloorLog2(m[2]) >= 13 THEN Pow2(FloorLog2(m[2]) - 12)
    ELSE 0

\* m rounded to a double; sticky: the exact value is above m by less than 2^-60
RoundToDouble(m, sticky) ==
    LET U == LastBitUnit(m)
    IN  IF U < 2 THEN m
        ELSE LET low == m[4] % U
                 kept == <<m[1], m[2], m[3], m[4] - low>>
                 odd == (m[4] \div U) % 2 = 1
                 up == 2 * low > U \/ (2 * low = U /\ (sticky \/ odd))
             IN  IF up THEN MagAdd(kept, <<0, 0, 0, U>>) ELSE kept

\* float(n) / 100 for n >= 0
DivideBy100(n) ==
    LET r0 == n % 100
        a == (r0 * Limb) \div 100
        r1 == (r0 * Limb) % 100
        b == (r1 * Limb) \div 100
        r2 == (r1 * Limb) % 100
        c == (r2 * Limb) \div 100
        r3 == (r2 * Limb) % 100
    IN  RoundToDouble(<<n \div 100, a, b, c>>, r3 # 0)

\* float(n) for an integer n
DoubleOf(n) == [neg |-> n < 0, mag |-> <<Abs(n), 0, 0, 0>>]

\* x + y
DoubleAdd(x, y) ==
    IF x.neg = y.neg
    THEN [neg |-> x.neg, mag |-> RoundToDouble(MagAdd(x.mag, y.mag), FALSE)]
    ELSE IF MagLess(x.mag, y.mag)
    THEN [neg |-> y.neg, mag |-> RoundToDouble(MagSub(y.mag, x.mag), FALSE)]
    ELSE [neg |-> x.neg, mag |-> RoundToDouble(MagSub(x.mag, y.mag), FALSE)]

\* abs(x - y)
AbsDifference(x, y) == DoubleAdd(x, [neg |-> ~y.neg, mag |-> y.mag]).mag

\* float(parts[0]) + (float(parts[1]) / 100 if len(parts) > 1 else 0);
\* float(parts[0]) is evaluated first
version_float(v) ==
    LET major == float(FirstPart(v))
    IN  IF major.raised # "none" THEN major
        ELSE IF PartCount(v) > 1 THEN
            LET minor == float(SecondPart(v))
            IN  IF minor.raised # "none" THEN minor
                ELSE [raised |-> "none",
                      value |-> DoubleAdd(DoubleOf(major.value),
                                          [neg |-> minor.value < 0,
                                           mag |-> DivideBy100(Abs(minor.value))])]
        ELSE [raised |-> "none", value |-> DoubleOf(major.value)]

\* faulty variant: the fallback returns the last candidate of the list
ClosestOrLatest_LastCandidate(target, candidates) ==
    LET target_float == version_float(target)
        latest == [value |-> IF candidates # <<>> THEN <<candidates[Len(candidates)]>>
                             ELSE <<>>,
                   kind |-> "LATEST"]
    IN  IF target_float.raised # "none" THEN latest
        ELSE IF \E i \in 1..Len(candidates) : version_float(candidates[i]).raised # "none"
        THEN latest
        ELSE IF candidates = <<>> THEN latest
        ELSE LET dist(i) == AbsDifference(version_float(candidates[i]).value,
                                          target_float.value)
                 best == Min({i \in 1..Len(candidates) :
                                \A j \in 1..Len(candidates) : ~MagLess(dist(j), dist(i))})
             IN  [value |-> <<candidates[best]>>, kind |-> "CLOSEST"]

\* faulty variant: a candidate that is no number is left out of the
\* comparison instead of ending it
ClosestOrLatest_SkipsUnreadable(target, candidates) ==
    LET target_float == version_float(target)
        latest == [value |-> IF candidates # <<>> THEN <<candidates[1]>> ELSE <<>>,
                   kind |-> "LATEST"]
        readable == {i \in 1..Len(candidates) : version_float(candidates[i]).raised = "none"}
    IN  IF target_float.raised # "none" THEN latest
        ELSE IF readable = {} THEN latest
        ELSE LET dist(i) == AbsDifference(version_float(candidates[i]).value,
                                          target_float.value)
                 best == Min({i \in readable : \A j \in readable : ~MagLess(dist(j), dist(i))})
             IN  [value |-> <<candidates[best]>>, kind |-> "CLOSEST"]

\* lines 132-145: the numerically closest candidate, the first of them in
\* list order as min() returns it, or the first candidate tagged LATEST when
\* a text is no number (min() of no candidate is a ValueError too)
ClosestOrLatest(target, candidates) ==
    LET target_float == version_float(target)
        latest == [value |-> IF candidates # <<>> THEN <<candidates[1]>> ELSE <<>>,
                   kind |-> "LATEST"]
    IN  IF target_float.raised # "none" THEN latest
        ELSE IF \E i \in 1..Len(candidates) : version_float(candidates[i]).raised # "none"
        THEN latest
        ELSE IF candidates = <<>> THEN latest
        ELSE LET dist(i) == AbsDifference(version_float(candidates[i]).value,
                                          target_float.value)
                 best == Min({i \in 1..Len(candidates) :
                                \A j \in 1..Len(candidates) : ~MagLess(dist(j), dist(i))})
             IN  [value |-> <<candidates[best]>>, kind |-> "CLOSEST"]

\* faulty variant: a candidate that starts with the major component matches
MajorMatches_DigitPrefix(target, candidates) ==
    LET target_major == FirstPart(target)
    IN  {i \in 1..Len(candidates) : startswith(candidates[i], target_major)}

\* lines 125-130: indices of the candidates of the target's major version
MajorMatches(target, candidates) ==
    LET target_major == FirstPart(target)
    IN  {i \in 1..Len(candidates) :
            \/ candidates[i] = target_major
            \/ startswith(candidates[i], target_major \o <<".">>)}

\* faulty variant: the empty list is not tested first
find_closest_version_NoEmptyCheck(target, candidates) ==
    IF \E i \in 1..Len(candidates) : candidates[i] = target
    THEN [value |-> <<target>>, kind |-> "EXACT"]
    ELSE IF MajorMatches(target, candidates) # {}
    THEN [value |-> <<candidates[Min(MajorMatches(target, candidates))]>>, kind |-> "MAJOR"]
    ELSE ClosestOrLatest(target, candidates)

\* faulty variant: the major version is matched before the exact entry
find_closest_version_MajorFirst(target, candidates) ==
    IF candidates = <<>> THEN [value |-> <<>>, kind |-> "NOT_FOUND"]
    ELSE IF MajorMatches(target, candidates) # {}
    THEN [value |-> <<candidates[Min(MajorMatches(target, candidates))]>>, kind |-> "MAJOR"]
    ELSE IF \E i \in 1..Len(candidates) : candidates[i] = target
    THEN [value |-> <<target>>, kind |-> "EXACT"]
    ELSE ClosestOrLatest(target, candidates)

\* faulty variant: the fallback of line 145 carries no kind
find_closest_version_UntaggedFallback(target, candidates) ==
    LET r == IF candidates = <<>> THEN [value |-> <<>>, kind |-> "NOT_FOUND"]
             ELSE IF \E i \in 1..Len(candidates) : candidates[i] = target
             THEN [value |-> <<target>>, kind |-> "EXACT"]
             ELSE IF MajorMatches(target, candidates) # {}
             THEN [value |-> <<candidates[Min(MajorMatches(target, candidates))]>>,
                   kind |-> "MAJOR"]
             ELSE ClosestOrLatest(target, candidates)
    IN  IF r.kind = "LATEST" THEN [value |-> r.value, kind |-> ""] ELSE r

\* the result (matched value, kind); the value is <<>> for None and <<v>>
\* for a candidate v
find_closest_version(target, candidates) ==
    IF candidates = <<>> THEN [value |-> <<>>, kind |-> "NOT_FOUND"]
    ELSE IF \E i \in 1..Len(candidates) : candidates[i] = target
    THEN [value |-> <<target>>, kind |-> "EXACT"]
    ELSE IF MajorMatches(target, candidates) # {}
    THEN [value |-> <<candidates[Min(MajorMatches(target, candidates))]>>, kind |-> "MAJOR"]
    ELSE ClosestOrLatest(target, candidates)

TargetVersions ==
    { <<"1", "4">>, <<"1", "4", ".", "6">>, <<"9", ".", "9">>, <<"1">>, <<"x">>, <<>>,
      <<"1", "1", ".", "5">>, <<"1", ".", "x">>, <<"2", ".", "1">>, <<"1", "3">> }

CandidateLabels ==
    { <<"1", "4">>, <<"1", "5">>, <<"1", "4", ".", "6">>, <<"1", "0">>, <<"1", "2">>,
      <<"1">>, <<"x">>, <<"3">>, <<"1", ".", "2">> }

InitResolve ==
    /\ target_version \in TargetVersions
    /\ available_versions \in SeqsUpTo(CandidateLabels, MaxCandidates)
    /\ match = <<>>
    /\ pc = "resolve"
    /\ returned = <<>>
    /\ max_iterations = 0
    /\ session = "none"
    /\ iteration = 0
    /\ messages = <<>>
    /\ content = <<>>
    /\ block = 1
    /\ tool_results = <<>>
    /\ completions = <<>>
    /\ executed = <<>>
    /\ version = <<>>
    /\ normalized = <<>>
    /\ ApiIdle
    /\ ProductIdle
    /\ CacheIdle
    /\ ToolIdle
    /\ AgentIdle

FindClosestVersion ==
    /\ pc = "resolve"
    /\ match' = <<find_closest_version(target_version, available_versions)>>
    /\ pc' = "done"
    /\ UNCHANGED <<target_version, available_versions, returned>>
    /\ UNCHANGED loopVars
    /\ UNCHANGED versionVars
    /\ UNCHANGED apiVars
    /\ UNCHANGED otherVars

NextResolve == FindClosestVersion

SpecResolve == InitResolve /\ [][NextResolve]_vars

(***************************************************************************)
(* Properties of find_closest_version (specification SpecResolve).         *)
(***************************************************************************)
\* the result of find_closest_version
Match == match[1]

Candidates == {available_versions[i] : i \in 1..Len(available_versions)}

\* candidate c is of the major version of target t
SameMajor(t, c) ==
    LET major == FirstPart(t)
    IN  c = major \/ (Len(c) > Len(major) /\ SubSeq(c, 1, Len(major) + 1) = major \o <<".">>)

\* C13: with an empty candidate list the result is no matched value and the
\* kind NOT_FOUND, for every target.
C13_EmptyListNotFound ==
    (Len(match) = 1 /\ available_versions = <<>>) =>
        (Match.value = <<>> /\ Match.kind = "NOT_FOUND")

C13_Witness ==
    /\ Len(match) = 1
    /\ available_versions = <<>>
    /\ target_version = <<"x">>
    /\ Match.kind = "NOT_FOUND"

\* C14: a target that is literally in the list is returned as EXACT, also
\* when a candidate of the same major version comes earlier; MAJOR is
\* returned only when the target is not in the list, and CLOSEST only when
\* the list holds neither the target nor a candidate of its major version.
C14_ExactOverMajorOverClosest ==
    Len(match) = 1 =>
        /\ target_version \in Candidates =>
              (Match.value = <<target_version>> /\ Match.kind = "EXACT")
        /\ Match.kind = "MAJOR" => target_version \notin Candidates
        /\ Match.kind = "CLOSEST" =>
              /\ target_version \notin Candidates
              /\ \A c \in Candidates : ~SameMajor(target_version, c)

C14_Witness ==
    /\ Len(match) = 1
    /\ target_version = <<"1", "4", ".", "6">>
    /\ available_versions = <<<<"1", "4">>, <<"1", "4", ".", "6">>>>
    /\ Match.kind = "EXACT"

\* C15 as stated: the kind of every result is EXACT, MAJOR, CLOSEST or
\* NOT_FOUND, and a matched value comes with a kind.
C15_KindOfFour ==
    Len(match) = 1 =>
        /\ Match.kind \in {"EXACT", "MAJOR", "CLOSEST", "NOT_FOUND"}
        /\ Match.value # <<>> => Match.kind \in {"EXACT", "MAJOR", "CLOSEST"}

\* C15 amended: the kind of every result is EXACT, MAJOR, CLOSEST, LATEST or
\* NOT_FOUND, and a matched value comes with one of the kinds EXACT, MAJOR,
\* CLOSEST, LATEST.
C15_KindOfFive ==
    Len(match) = 1 =>
        /\ Match.kind \in {"EXACT", "MAJOR", "CLOSEST", "LATEST", "NOT_FOUND"}
        /\ Match.value # <<>> => Match.kind \in {"EXACT", "MAJOR", "CLOSEST", "LATEST"}

C15_Witness ==
    /\ Len(match) = 1
    /\ target_version = <<"x">>
    /\ Match.value = <<<<"1", "5">>>>
    /\ Match.kind = "LATEST"

(***************************************************************************)
(* call_endoflife_api and endoflife_lookup.  One action runs the code from *)
(* one requests.get call to the next (or to the return of                  *)
(* endoflife_lookup); api_log records every requests.get outcome and every *)
(* time.sleep in the order they happen.                                    *)
(***************************************************************************)
MaxRetries == 3

MaxRecords == 2

\* response statuses other than 200, 404 and 429
OtherStatusCodes == {403, 500}

\* api_log entries
HttpResponse(code) ==
    [event |-> "request", status_code |-> code, raised |-> "", wait_time |-> 0]

RequestRaised(exc) ==
    [event |-> "request", status_code |-> 0, raised |-> exc, wait_time |-> 0]

Sleep(t) ==
    [event |-> "sleep", status_code |-> 0, raised |-> "", wait_time |-> t]

\* outcomes of call_endoflife_api; retry_count and data are <<>> when the
\* dict has no such key; status "raised" is an exception leaving the function
ApiSuccess(data) ==
    [status |-> "success", error_type |-> "", retry_count |-> <<>>, data |-> <<data>>]

ApiNotFound ==
    [status |-> "not_found", error_type |-> "PRODUCT_NOT_FOUND", retry_count |-> <<>>,
     data |-> <<>>]

ApiError(error_type, retry_count) ==
    [status |-> "error", error_type |-> error_type, retry_count |-> retry_count,
     data |-> <<>>]

ApiRaised(exc) ==
    [status |-> "raised", error_type |-> exc, retry_count |-> <<>>, data |-> <<>>]

\* the return after the for loop
MaxRetriesReturn == ApiError("MAX_RETRIES", <<>>)

\* items of a 200 payload: a release record (a dict, cycle <<>> when the key
\* is absent and <<label>> otherwise) or a value that is no dict
ReleaseRecord(cycle) == [pytype |-> "dict", cycle |-> cycle]

StrItem == [pytype |-> "str", cycle |-> <<>>]

CycleLabels == { <<"1", "4">>, <<"1", "5">>, <<"x">> }

CycleValues == {<<>>, <<<<>>>>} \cup {<<l>> : l \in CycleLabels}

PayloadItems == {ReleaseRecord(c) : c \in CycleValues} \cup {StrItem}

\* response.json() of a 200 response: a list of items, or a dict, which
\* iterates as its keys
Payloads ==
    {[pytype |-> "list", items |-> r] : r \in SeqsUpTo(PayloadItems, MaxRecords)}
        \cup {[pytype |-> "dict", items |-> <<>>], [pytype |-> "dict", items |-> <<StrItem>>]}

\* v.get("cycle") is truthy
HasCycle(v) == v.cycle # <<>> /\ v.cycle[1] # <<>>

\* faulty variant: a record without a cycle is kept, with an empty label
LabelsOf_NoFilter(items) ==
    [i \in 1..Len(items) |-> IF HasCycle(items[i]) THEN items[i].cycle[1] ELSE <<>>]

RECURSIVE LabelsOf(_)
\* [str(v.get("cycle", ...)) for v in versions_data if v.get("cycle")]
LabelsOf(items) ==
    IF items = <<>> THEN <<>>
    ELSE (IF HasCycle(Head(items)) THEN <<Head(items).cycle[1]>> ELSE <<>>)
             \o LabelsOf(Tail(items))

\* next((v for v in versions_data if str(v.get("cycle")) == matched), {}):
\* index of the record, 0 for {}
VersionInfoIndex(items, matched) ==
    LET idx == {i \in 1..Len(items) : items[i].cycle = <<matched>>}
    IN  IF idx = {} THEN 0 ELSE Min(idx)

\* results of endoflife_lookup; retry_count and matched_version are <<>> when
\* the dict has no such key
LookupResult(status, error_type, retry_count, matched_version, match_type) ==
    [status |-> status, error_type |-> error_type, retry_count |-> retry_count,
     matched_version |-> matched_version, match_type |-> match_type]

LookupError(error_type, retry_count) ==
    LookupResult("error", error_type, retry_count, <<>>, "")

LookupNotFound(error_type) == LookupResult("not_found", error_type, <<>>, <<>>, "")

\* the list comprehension of line 280 raises AttributeError on an item that
\* is no dict
AllRecords(items) == \A i \in 1..Len(items) : items[i].pytype = "dict"

\* endoflife_lookup reaches its find_closest_version call
ReachesResolve(resp) ==
    /\ resp.status = "success"
    /\ resp.data[1].items # <<>>
    /\ AllRecords(resp.data[1].items)
    /\ LabelsOf(resp.data[1].items) # <<>>

\* faulty variant: an outcome of status error is surfaced as not_found
SurfaceError_AsNotFound(resp) == LookupNotFound(resp.error_type)

\* the return of lines 257-266
SurfaceError(resp) ==
    LookupError(resp.error_type,
                IF resp.retry_count = <<>> THEN <<0>> ELSE resp.retry_count)

\* endoflife_lookup from the return of call_endoflife_api to its own return
AfterApiCall(resp, normalized_version) ==
    IF resp.status = "raised" THEN LookupError("UNEXPECTED_ERROR", <<>>)
    ELSE IF resp.status = "not_found" THEN LookupNotFound("PRODUCT_NOT_FOUND")
    ELSE IF resp.status = "error" THEN SurfaceError(resp)
    ELSE LET versions_data == resp.data[1].items
         IN  IF versions_data = <<>> THEN LookupNotFound("NO_VERSION_DATA")
             ELSE IF ~AllRecords(versions_data) THEN LookupError("UNEXPECTED_ERROR", <<>>)
             ELSE IF LabelsOf(versions_data) = <<>> THEN LookupNotFound("NO_VERSIONS_FOUND")
             ELSE LET m == find_closest_version(normalized_version, LabelsOf(versions_data))
                  IN  IF m.value = <<>> \/ m.value[1] = <<>>
                      THEN LookupNotFound("VERSION_NOT_FOUND")
                      ELSE IF VersionInfoIndex(versions_data, m.value[1]) = 0
                      THEN LookupNotFound("VERSION_DATA_NOT_FOUND")
                      ELSE LookupResult("success", "", <<>>, m.value, m.kind)

\* faulty variant: one request more than max_retries
MoreAttempts_OneExtra(i, n) == i <= n

\* range(max_retries) has a next value
MoreAttempts(i, n) == i < n

\* faulty variant: a timeout or request error is always retried
LastAttempt_Never(i, n) == FALSE

\* not (attempt < max_retries - 1)
LastAttempt(i, n) == ~(i < n - 1)

\* faulty variant: the 404 outcome has status error
NotFoundReturn_AsError == ApiError("PRODUCT_NOT_FOUND", <<>>)

\* the return of lines 161-165
NotFoundReturn == ApiNotFound

ProductNames == { <<>>, <<"R", "e", "d", "i", "s">> }

LookupVersions ==
    { <<>>, <<"1", "4", ".", "6", ".", "2">>, <<"1", "5">>, <<"9">>, <<"x">> }

\* exceptions response.json() raises on a body that is no JSON document:
\* requests.JSONDecodeError (a RequestException) or, in requests before 2.27,
\* a ValueError
JsonErrors == {"RequestException", "ValueError"}

InitLookup ==
    /\ product \in ProductNames
    /\ version \in LookupVersions
    /\ max_retries \in 0..MaxRetries
    /\ attempt = 0
    /\ api_log = <<>>
    /\ api_response = <<>>
    /\ lookup_result = <<>>
    /\ normalized = <<>>
    /\ target_version = <<>>
    /\ available_versions = <<>>
    /\ match = <<>>
    /\ pc = "lookup"
    /\ returned = <<>>
    /\ max_iterations = 0
    /\ session = "none"
    /\ iteration = 0
    /\ messages = <<>>
    /\ content = <<>>
    /\ block = 1
    /\ tool_results = <<>>
    /\ completions = <<>>
    /\ executed = <<>>
    /\ ProductIdle
    /\ CacheIdle
    /\ ToolIdle
    /\ AgentIdle

\* call_endoflife_api ends with resp: it returns resp, or an exception leaves it
Finish(resp) ==
    /\ api_response' = <<resp>>
    /\ pc' = "returned"
    /\ UNCHANGED <<lookup_result, resolveVars>>

\* endoflife_lookup up to the first requests.get call (lines 214-244 and 150-156)
LookupStart ==
    /\ pc = "lookup"
    /\ IF product = <<>> \/ version = <<>>
       THEN /\ lookup_result' = <<LookupError("INVALID_INPUT", <<>>)>>
            /\ pc' = "done"
            /\ UNCHANGED <<normalized, api_response, resolveVars>>
       ELSE /\ normalized' = <<normalize_version(version)>>
            /\ IF MoreAttempts(0, max_retries)
               THEN /\ pc' = "request"
                    /\ UNCHANGED <<api_response, lookup_result, resolveVars>>
               ELSE Finish(MaxRetriesReturn)
    /\ UNCHANGED <<product, version, max_retries, attempt, api_log, returned>>
    /\ UNCHANGED loopVars
    /\ UNCHANGED otherVars

\* continue: the next value of range(max_retries), or the return after the loop
Continue(entries) ==
    /\ api_log' = api_log \o entries
    /\ attempt' = attempt + 1
    /\ IF MoreAttempts(attempt + 1, max_retries)
       THEN /\ pc' = "request"
            /\ UNCHANGED <<api_response, lookup_result, resolveVars>>
       ELSE Finish(MaxRetriesReturn)

\* a return statement inside the loop
Return(entry, resp) ==
    /\ api_log' = Append(api_log, entry)
    /\ attempt' = attempt
    /\ Finish(resp)

LookupFrame ==
    /\ UNCHANGED <<product, version, normalized, max_retries, returned>>
    /\ UNCHANGED loopVars
    /\ UNCHANGED otherVars

\* faulty variant: the backoff exponent is the one-based attempt number
RetryOrGiveUp_OneBased(entry, error_type) ==
    IF LastAttempt(attempt, max_retries)
    THEN Return(entry, ApiError(error_type, <<max_retries>>))
    ELSE Continue(<<entry, Sleep(Pow2(attempt + 1))>>)

\* lines 179-190 and 192-203
RetryOrGiveUp(entry, error_type) ==
    IF LastAttempt(attempt, max_retries)
    THEN Return(entry, ApiError(error_type, <<max_retries>>))
    ELSE Continue(<<entry, Sleep(Pow2(attempt))>>)

Respond200 ==
    /\ pc = "request"
    /\ \E data \in Payloads : Return(HttpResponse(200), ApiSuccess(data))
    /\ LookupFrame

\* a 200 response whose body is no JSON document
Respond200Unparseable ==
    /\ pc = "request"
    /\ \E exc \in JsonErrors :
          LET entry == [HttpResponse(200) EXCEPT !.raised = exc]
          IN  IF exc = "RequestException"
              THEN RetryOrGiveUp(entry, "REQUEST_ERROR")
              ELSE Return(entry, ApiRaised(exc))
    /\ LookupFrame

Respond404 ==
    /\ pc = "request"
    /\ Return(HttpResponse(404), NotFoundReturn)
    /\ LookupFrame

Respond429 ==
    /\ pc = "request"
    /\ Continue(<<HttpResponse(429), Sleep(5 * (attempt + 1))>>)
    /\ LookupFrame

RespondOtherStatus ==
    /\ pc = "request"
    /\ \E code \in OtherStatusCodes : Return(HttpResponse(code), ApiError("HTTP_ERROR", <<>>))
    /\ LookupFrame

RequestTimeout ==
    /\ pc = "request"
    /\ RetryOrGiveUp(RequestRaised("Timeout"), "TIMEOUT")
    /\ LookupFrame

RequestError ==
    /\ pc = "request"
    /\ RetryOrGiveUp(RequestRaised("RequestException"), "REQUEST_ERROR")
    /\ LookupFrame

\* endoflife_lookup from the end of call_endoflife_api to its return (lines
\* 246-345)
LookupReturn ==
    /\ pc = "returned"
    /\ lookup_result' = <<AfterApiCall(api_response[1], normalized[1])>>
    /\ IF ReachesResolve(api_response[1])
       THEN /\ target_version' = normalized[1]
            /\ available_versions' = LabelsOf(api_response[1].data[1].items)
            /\ match' = <<find_closest_version(normalized[1],
                                               LabelsOf(api_response[1].data[1].items))>>
       ELSE UNCHANGED resolveVars
    /\ pc' = "done"
    /\ UNCHANGED <<attempt, api_log, api_response>>
    /\ LookupFrame

NextLookup ==
    \/ LookupStart
    \/ LookupReturn
    \/ Respond200
    \/ Respond200Unparseable
    \/ Respond404
    \/ Respond429
    \/ RespondOtherStatus
    \/ RequestTimeout
    \/ RequestError

SpecLookup == InitLookup /\ [][NextLookup]_vars

(***************************************************************************)
(* Properties of call_endoflife_api and endoflife_lookup (specification    *)
(* SpecLookup).                                                            *)
(***************************************************************************)
\* the requests.get outcomes of the call, in order
Requests == SelectSeq(api_log, LAMBDA e : e.event = "request")

RequestCount == Len(Requests)

ApiEnded == api_response # <<>>

ApiResponse == api_response[1]

LookupEnded == lookup_result # <<>>

Lookup == lookup_result[1]

IsTimeout(e) == e.event = "request" /\ e.raised = "Timeout"

IsConnectionError(e) ==
    e.event = "request" /\ e.status_code = 0 /\ e.raised = "RequestException"

IsRateLimit(e) == e.event = "request" /\ e.status_code = 429

\* a 404 response or a response status other than 200 and 429
IsFinalStatus(e) ==
    e.event = "request" /\ e.status_code \in ({404} \cup OtherStatusCodes)

AllTimeouts == \A i \in 1..Len(Requests) : IsTimeout(Requests[i])

\* C16: when every request of a call times out, the call does not end before
\* max_retries requests were made, and it ends after exactly max_retries
\* requests with an error of type TIMEOUT whose retry_count is max_retries.
C16_TimeoutsExhaustBudget ==
    (RequestCount > 0 /\ AllTimeouts) =>
        /\ ~ApiEnded => RequestCount < max_retries
        /\ ApiEnded =>
              /\ RequestCount = max_retries
              /\ ApiResponse.status = "error"
              /\ ApiResponse.error_type = "TIMEOUT"
              /\ ApiResponse.retry_count = <<max_retries>>

C16_Witness ==
    /\ ApiEnded
    /\ max_retries = 3
    /\ RequestCount = 3
    /\ AllTimeouts
    /\ ApiResponse.error_type = "TIMEOUT"

\* C17: a 404 response, or a response of a status other than 200 and 429, is
\* the last entry of the call: no wait and no request follows it, and the
\* call has ended with not_found (404) or with an HTTP_ERROR that carries no
\* retry count (other status); a 404 on the first request gives one request.
C17_FinalStatusEndsCall ==
    \A i \in 1..Len(api_log) :
        IsFinalStatus(api_log[i]) =>
            /\ i = Len(api_log)
            /\ ApiEnded
            /\ IF api_log[i].status_code = 404
               THEN ApiResponse.status = "not_found"
               ELSE /\ ApiResponse.status = "error"
                    /\ ApiResponse.error_type = "HTTP_ERROR"
                    /\ ApiResponse.retry_count = <<>>
            /\ (i = 1 /\ api_log[i].status_code = 404) => RequestCount = 1

C17_Witness ==
    /\ ApiEnded
    /\ max_retries = 3
    /\ api_log = <<HttpResponse(404)>>
    /\ ApiResponse.status = "not_found"

\* C18: in every state the number of requests of the call is at most
\* max_retries, whatever the responses were.
C18_RequestsWithinBudget == RequestCount <= max_retries

C18_Witness ==
    /\ ApiEnded
    /\ max_retries = 3
    /\ RequestCount = 3
    /\ IsRateLimit(Requests[1])
    /\ IsTimeout(Requests[2])
    /\ IsConnectionError(Requests[3])

\* every request of the call failed by a timeout, a connection error or a
\* rate-limit response, and max_retries requests were made
BudgetExhausted ==
    /\ ApiEnded
    /\ RequestCount > 0
    /\ RequestCount = max_retries
    /\ \A i \in 1..Len(Requests) :
          IsTimeout(Requests[i]) \/ IsConnectionError(Requests[i]) \/ IsRateLimit(Requests[i])

\* C19: when the attempt budget is exhausted by transient failures, the
\* outcome of call_endoflife_api is a failure whose retry_count is
\* max_retries, and so is the result of endoflife_lookup.
C19_ExhaustionCarriesAttemptCount ==
    BudgetExhausted =>
        /\ ApiResponse.status = "error"
        /\ ApiResponse.retry_count = <<max_retries>>
        /\ LookupEnded =>
              /\ Lookup.status = "error"
              /\ Lookup.retry_count = <<max_retries>>

LastRequest == Requests[RequestCount]

\* the payload of the 200 response the call ended with
Data == ApiResponse.data[1]

\* the service answered, and no version could be used or matched: a 404, an
\* empty payload, a payload of records none of which has a label, or a
\* version that find_closest_version did not resolve
AnsweredWithoutMatch ==
    /\ ApiEnded
    /\ RequestCount > 0
    /\ LastRequest.raised = ""
    /\ \/ LastRequest.status_code = 404
       \/ /\ LastRequest.status_code = 200
          /\ \/ Data.items = <<>>
             \/ AllRecords(Data.items) /\ LabelsOf(Data.items) = <<>>
             \/ ReachesResolve(ApiResponse) /\ match[1].value = <<>>

\* the service was not reached or failed at transport level: a timeout or a
\* connection error on the last attempt, retries exhausted, or a response of
\* a status other than 200 and 404
TransportFailure ==
    /\ ApiEnded
    /\ \/ RequestCount = 0
       \/ IsTimeout(LastRequest)
       \/ IsConnectionError(LastRequest)
       \/ IsRateLimit(LastRequest)
       \/ LastRequest.status_code \in OtherStatusCodes

ClosedMarkers(s, marker) ==
    {o \in 0..Len(s) : OccursAt(s, marker, o) /\ find(s, Fence, o + Len(marker)) # -1}

\* the text between the marker at offset o and the next fence after it
MarkedContent(s, marker, o) ==
    slice(s, o + Len(marker), find(s, Fence, o + Len(marker)))

\* the payload by the stated precedence: the content of the first fenced
\* block labelled json, otherwise the content of the first fenced block,
\* otherwise the entire text; trimmed
PayloadByPrecedence(s) ==
    IF ClosedMarkers(s, FenceJson) # {}
    THEN strip(MarkedContent(s, FenceJson, Min(ClosedMarkers(s, FenceJson))))
    ELSE IF ClosedMarkers(s, Fence) # {}
    THEN strip(MarkedContent(s, Fence, Min(ClosedMarkers(s, Fence))))
    ELSE strip(s)

\* the outcome kind of parsing a payload
OutcomeOfPayload(payload) ==
    LET parsed == json_loads(payload)
    IN  IF parsed.raised = "none" /\ parsed.value.pytype = "list"
        THEN [status |-> "success", results |-> <<parsed.value>>]
        ELSE [status |-> "error", results |-> <<>>]

OutcomeOfResult(r) ==
    [status |-> r.status, results |-> IF r.status = "success" THEN <<r.results>> ELSE <<>>]

\* C28: the outcome of _extract_final_answer is the outcome of parsing the
\* payload selected by the precedence labelled fenced block, first fenced
\* block, entire trimmed text.
C28_PayloadByPrecedence ==
    pc = "done" => OutcomeOfResult(Result) = OutcomeOfPayload(PayloadByPrecedence(AnswerText))

\* the precedence on texts whose selected marker is closed, and on texts
\* without a fence
C28_ClosedBlocksByPrecedence ==
    (pc = "done" /\ (\A m \in SelectedMarkers(AnswerText) :
                        find(AnswerText, Fence, m.at + m.width) # -1)) =>
        OutcomeOfResult(Result) = OutcomeOfPayload(PayloadByPrecedence(AnswerText))

(***************************************************************************)
(* MAJOR and CLOSEST results of find_closest_version (specification        *)
(* SpecResolve).                                                           *)
(***************************************************************************)
\* indices of the candidates that equal the first dot-separated component of
\* the target or start with that component and a dot
SameMajorIndices == {i \in 1..Len(available_versions) :
                        SameMajor(target_version, available_versions[i])}

\* C29: when the target is not in the list, the result is MAJOR exactly when
\* a candidate equals the target's first component or starts with that
\* component and a dot, and the value is the first such candidate in list
\* order; a candidate that only shares a digit prefix is no MAJOR match.
C29_MajorIsFirstSameMajor ==
    (Len(match) = 1 /\ target_version \notin Candidates) =>
        /\ SameMajorIndices # {} =>
              /\ Match.kind = "MAJOR"
              /\ Match.value = <<available_versions[Min(SameMajorIndices)]>>
        /\ Match.kind = "MAJOR" =>
              /\ Match.value # <<>>
              /\ SameMajor(target_version, Match.value[1])

C29_Witness ==
    /\ Len(match) = 1
    /\ target_version = <<"1", ".", "x">>
    /\ available_versions = <<<<"1", "0">>, <<"1", ".", "2">>, <<"1">>>>
    /\ Match.kind = "MAJOR"
    /\ Match.value = <<<<"1", ".", "2">>>>

\* a version of one or two dot-separated runs of digits
IsNumeric(v) ==
    /\ PartCount(v) <= 2
    /\ AllDecimal(FirstPart(v))
    /\ PartCount(v) = 2 => AllDecimal(SecondPart(v))

\* major + minor/100 in hundredths, minor 0 when absent
Hundredths(v) ==
    100 * DecimalValue(FirstPart(v))
        + (IF PartCount(v) = 2 THEN DecimalValue(SecondPart(v)) ELSE 0)

\* indices of the candidates at the minimal distance from the target
NearestIndices ==
    {i \in 1..Len(available_versions) :
        \A j \in 1..Len(available_versions) :
            Abs(Hundredths(available_versions[i]) - Hundredths(target_version))
                <= Abs(Hundredths(available_versions[j]) - Hundredths(target_version))}

\* the case of C30: a non-empty list of numeric candidates, a numeric target
\* that is not in the list, and no candidate of the target's major version
ClosestCase ==
    /\ Len(match) = 1
    /\ available_versions # <<>>
    /\ target_version \notin Candidates
    /\ SameMajorIndices = {}
    /\ IsNumeric(target_version)
    /\ \A c \in Candidates : IsNumeric(c)

\* C30: in that case the result is CLOSEST and its value is the first
\* candidate in list order among those that minimise the absolute
\* difference of major + minor/100.
C30_ClosestIsFirstNearest ==
    ClosestCase =>
        /\ Match.kind = "CLOSEST"
        /\ Match.value = <<available_versions[Min(NearestIndices)]>>

\* the result is CLOSEST and one of the candidates at the minimal distance
C30_ClosestIsNearest ==
    ClosestCase =>
        /\ Match.kind = "CLOSEST"
        /\ \E i \in NearestIndices : Match.value = <<available_versions[i]>>

(***************************************************************************)
(* normalize_product_name (mcp_server/tools/endoflife_lookup.py)           *)
(***************************************************************************)
\* the most words a product name is built from
MaxNameWords == 3

\* str.lower()
LowerStr(s) == [i \in 1..Len(s) |-> Lower(s[i])]

\* str.replace(old, new) for one-character old and new
Replace(s, old, new) == [i \in 1..Len(s) |-> IF s[i] = old THEN new ELSE s[i]]

\* PRODUCT_MAP in the order of the source: the rows a name built from
\* ProductWords can match
PRODUCT_MAP ==
    << [key |-> <<"M", "y", "S", "Q", "L">>,
        value |-> <<"m", "y", "s", "q", "l">>],
       [key |-> <<"S", "Q", "L", " ", "S", "e", "r", "v", "e", "r">>,
        value |-> <<"m", "s", "s", "q", "l">>],
       [key |-> <<"O", "r", "a", "c", "l", "e", " ", "D", "a", "t", "a", "b", "a", "s", "e">>,
        value |-> <<"o", "r", "a", "c", "l", "e", "-", "d", "a", "t", "a", "b", "a", "s", "e">>],
       [key |-> <<"O", "r", "a", "c", "l", "e">>,
        value |-> <<"o", "r", "a", "c", "l", "e", "-", "d", "a", "t", "a", "b", "a", "s", "e">>] >>

\* product in PRODUCT_MAP
InProductMap(name) == \E i \in 1..Len(PRODUCT_MAP) : PRODUCT_MAP[i].key = name

\* PRODUCT_MAP[name]
ProductMapAt(name) ==
    PRODUCT_MAP[CHOOSE i \in 1..Len(PRODUCT_MAP) : PRODUCT_MAP[i].key = name].value

\* the rows whose key equals the name once both are lower-cased (lines 93-95)
LowerCaseRows(name) ==
    {i \in 1..Len(PRODUCT_MAP) : LowerStr(PRODUCT_MAP[i].key) = LowerStr(name)}

SuffixWords ==
    { <<"d", "a", "t", "a", "b", "a", "s", "e">>,
      <<"s", "e", "r", "v", "e", "r">>,
      <<"d", "b">> }

\* \s+(Database|Server|DB)$ matches from index i, letter case ignored
SuffixMatchAt(s, i) ==
    \E j \in i..Len(s) :
        /\ \A k \in i..j : IsSpace(s[k])
        /\ \E w \in SuffixWords :
              /\ MatchesAtIgnoreCase(s, j + 1, w)
              /\ j + Len(w) = Len(s)

\* re.sub(r'\s+(Database|Server|DB)$', '', s, flags=re.IGNORECASE)
StripSuffix(s) ==
    LET starts == {i \in 1..Len(s) : SuffixMatchAt(s, i)}
    IN  IF starts = {} THEN s ELSE SubSeq(s, 1, Min(starts) - 1)

normalize_product_name(p) ==
    IF InProductMap(p) THEN ProductMapAt(p)
    ELSE IF LowerCaseRows(p) # {}
    THEN PRODUCT_MAP[Min(LowerCaseRows(p))].value
    ELSE LET cleaned == StripSuffix(p)
         IN  IF cleaned # p /\ InProductMap(cleaned)
             THEN ProductMapAt(cleaned)
             ELSE Replace(LowerStr(p), " ", "-")

\* the words product names are built from, each with its spellings
ProductWords ==
    { {<<"M", "y", "S", "Q", "L">>, <<"m", "y", "s", "q", "l">>},
      {<<"O", "r", "a", "c", "l", "e">>, <<"o", "r", "a", "c", "l", "e">>},
      {<<"S", "Q", "L">>},
      {<<"S", "e", "r", "v", "e", "r">>, <<"s", "e", "r", "v", "e", "r">>},
      {<<"D", "a", "t", "a", "b", "a", "s", "e">>},
      {<<"D", "B">>, <<"d", "b">>},
      {<<" ">>} }

RECURSIVE Spellings(_)
\* the names spelled by a sequence of words
Spellings(ws) ==
    IF ws = <<>> THEN {<<>>}
    ELSE {h \o t : h \in Head(ws), t \in Spellings(Tail(ws))}

\* two calls whose arguments are two spellings of the same words
InitProduct ==
    /\ \E ws \in SeqsUpTo(ProductWords, MaxNameWords) :
          /\ product_name \in Spellings(ws)
          /\ other_name \in Spellings(ws)
    /\ api_product = <<>>
    /\ pc = "product"
    /\ returned = <<>>
    /\ max_iterations = 0
    /\ session = "none"
    /\ iteration = 0
    /\ messages = <<>>
    /\ content = <<>>
    /\ block = 1
    /\ tool_results = <<>>
    /\ completions = <<>>
    /\ executed = <<>>
    /\ version = <<>>
    /\ normalized = <<>>
    /\ target_version = <<>>
    /\ available_versions = <<>>
    /\ match = <<>>
    /\ ApiIdle
    /\ CacheIdle
    /\ ToolIdle
    /\ AgentIdle

NormalizeProductName ==
    /\ pc = "product"
    /\ api_product' = <<normalize_product_name(product_name),
                        normalize_product_name(other_name)>>
    /\ pc' = "done"
    /\ UNCHANGED <<product_name, other_name, returned>>
    /\ UNCHANGED loopVars
    /\ UNCHANGED <<versionVars, resolveVars, apiVars, cacheVars, toolVars, agentVars>>

NextProduct == NormalizeProductName

SpecProduct == InitProduct /\ [][NextProduct]_vars

(***************************************************************************)
(* Claim C24                                                               *)
(***************************************************************************)
\* C24: normalize_product_name is case-insensitive at every step (the table
\* lookup, the table lookup after stripping a trailing Database/Server/DB,
\* the lower-cased hyphenated name): two product names that differ only in
\* letter case map to the same identifier.
C24_CaseInsensitive ==
    (api_product # <<>> /\ LowerStr(product_name) = LowerStr(other_name))
        => api_product[1] = api_product[2]

(***************************************************************************)
(* ACATReferenceCache and get_acat_reference                               *)
(* (mcp_server/tools/get_acat_reference.py)                                *)
(***************************************************************************)
\* the most cells of a column of the reference sheet
MaxCells == 2

\* the most get_acat_reference calls of one process
MaxLoads == 3

\* str(n) for 0 <= n <= 99
Digits(n) ==
    LET digit(k) == <<"0", "1", "2", "3", "4", "5", "6", "7", "8", "9">>[k + 1]
    IN  IF n < 10 THEN <<digit(n)>> ELSE <<digit(n \div 10), digit(n % 10)>>

\* a cell read by pd.read_excel: a text, a whole number (kept as its decimal
\* digits), or an empty cell
Text(chars) == [type |-> "str", value |-> chars]

Number(n) == [type |-> "int", value |-> Digits(n)]

NaN == [type |-> "nan", value |-> <<>>]

\* str(ds) of a cell value
str(ds) == ds.value

\* Series.dropna()
dropna(cells) == SelectSeq(cells, LAMBDA c : c # NaN)

RECURSIVE unique(_)
\* Series.unique(): the first occurrence of every value, in order; a text and
\* a number are different values
unique(cells) ==
    IF cells = <<>> THEN <<>>
    ELSE LET front == SubSeq(cells, 1, Len(cells) - 1)
             last == cells[Len(cells)]
         IN  IF \E i \in 1..Len(front) : front[i] = last
             THEN unique(front)
             ELSE Append(unique(front), last)

\* ord(c)
CharCode(c) ==
    IF c = " " THEN 32
    ELSE IF IsDecimal(c) THEN 48 + DigitValue(c)
    ELSE IF \E k \in 1..26 : UpperCase[k] = c
    THEN 64 + (CHOOSE k \in 1..26 : UpperCase[k] = c)
    ELSE 96 + (CHOOSE k \in 1..26 : LowerCase[k] = c)

\* a < b for two strings
StrLess(a, b) ==
    \E k \in 1..(Len(b)) :
        /\ \A i \in 1..(k - 1) : i <= Len(a) /\ a[i] = b[i]
        /\ \/ k = Len(a) + 1
           \/ k <= Len(a) /\ CharCode(a[k]) < CharCode(b[k])

RECURSIVE sorted(_)
\* sorted(list) of strings
sorted(list) ==
    IF list = <<>> THEN <<>>
    ELSE LET rest == sorted(Tail(list))
             x == Head(list)
             before == SelectSeq(rest, LAMBDA y : StrLess(y, x))
             after == SelectSeq(rest, LAMBDA y : ~StrLess(y, x))
         IN  before \o <<x>> \o after

\* line 62: [str(ds).strip() for ds in datastores if str(ds).strip()]
Stripped(datastores) ==
    LET texts == [i \in 1..Len(datastores) |-> strip(str(datastores[i]))]
    IN  SelectSeq(texts, LAMBDA t : t # <<>>)

\* a sheet as read by pd.read_excel: its columns in order
Column(name, cells) == [name |-> name, cells |-> cells]

HasColumn(df, name) == \E i \in 1..Len(df) : df[i].name = name

\* lines 50-56: the name of the column that holds the reference names; with
\* no column at all, df.columns[0] raises
column_name(df) ==
    IF HasColumn(df, "Datastore") THEN "Datastore"
    ELSE IF HasColumn(df, "datastore") THEN "datastore"
    ELSE df[1].name

\* df[column_name]
ColumnCells(df, name) == df[CHOOSE i \in 1..Len(df) : df[i].name = name].cells

\* lines 59-62: the reference list of a sheet
ReferenceListOf(df) ==
    sorted(Stripped(unique(dropna(ColumnCells(df, column_name(df))))))

\* what a path holds: no file, a file read_excel cannot read, or a sheet
Missing == [exists |-> FALSE]

Unreadable == [exists |-> TRUE, readable |-> FALSE]

Sheet(df) == [exists |-> TRUE, readable |-> TRUE, df |-> df]

\* an exception between lines 46 and 56: read_excel raises, or the sheet has
\* no column and df.columns[0] raises
ReadFails(file) == IF file.readable THEN file.df = <<>> ELSE TRUE

OtherFile == "other.xlsx"

Paths == {MasterFile, OtherFile}

CellValues ==
    { NaN, Text(<<"B">>), Text(<<" ", "B">>), Text(<<"a">>), Text(<<" ">>),
      Text(<<"1">>), Number(1) }

Sheets ==
    {<<>>}
    \cup {<<Column("Datastore", c)>> : c \in SeqsUpTo(CellValues, MaxCells)}
    \cup {<<Column("Id", <<Number(7)>>), Column("datastore", c)>> :
             c \in SeqsUpTo(CellValues, MaxCells)}
    \cup {<<Column("Name", c), Column("Id", <<Number(7)>>)>> :
             c \in SeqsUpTo(CellValues, MaxCells)}

FileStates == {Missing, Unreadable} \cup {Sheet(df) : df \in Sheets}

OtherFileStates == {Missing, Sheet(<<Column("Name", <<Text(<<"Z">>)>>)>>)}

\* the cache as constructed (lines 13-15, 84) and a file system
InitCache ==
    /\ files \in {[p \in Paths |-> IF p = MasterFile THEN m ELSE o] :
                     m \in FileStates, o \in OtherFileStates}
    /\ _reference_list = <<>>
    /\ _loaded = FALSE
    /\ file_reads = <<>>
    /\ load_results = <<>>
    /\ pc = "serve"
    /\ returned = <<>>
    /\ max_iterations = 0
    /\ session = "none"
    /\ iteration = 0
    /\ messages = <<>>
    /\ content = <<>>
    /\ block = 1
    /\ tool_results = <<>>
    /\ completions = <<>>
    /\ executed = <<>>
    /\ version = <<>>
    /\ normalized = <<>>
    /\ target_version = <<>>
    /\ available_versions = <<>>
    /\ match = <<>>
    /\ ApiIdle
    /\ ProductIdle
    /\ ToolIdle
    /\ AgentIdle

\* get_acat_reference(filepath) returns result
LoadReturns(filepath, result) ==
    /\ load_results' = Append(load_results, [filepath |-> filepath, result |-> result])
    /\ UNCHANGED <<files, pc, returned>>
    /\ UNCHANGED loopVars
    /\ UNCHANGED <<versionVars, resolveVars, apiVars, productVars, toolVars, agentVars>>

\* a faulty variant: the loaded cache reads the file again
LoadCached_Rereads ==
    /\ pc = "serve" /\ Len(load_results) < MaxLoads
    /\ _loaded
    /\ \E filepath \in Paths :
          /\ file_reads' = Append(file_reads, filepath)
          /\ LoadReturns(filepath, ReferenceResult(_reference_list))
    /\ UNCHANGED <<_reference_list, _loaded>>

\* lines 26-31: the cache is loaded
LoadCached ==
    /\ pc = "serve" /\ Len(load_results) < MaxLoads
    /\ _loaded
    /\ \E filepath \in Paths : LoadReturns(filepath, ReferenceResult(_reference_list))
    /\ UNCHANGED <<_reference_list, _loaded, file_reads>>

\* lines 34-41: no file at the path
LoadFileNotFound ==
    /\ pc = "serve" /\ Len(load_results) < MaxLoads
    /\ ~_loaded
    /\ \E filepath \in Paths :
          /\ ~files[filepath].exists
          /\ LoadReturns(filepath, LoadFailure("FILE_NOT_FOUND", filepath))
    /\ UNCHANGED <<_reference_list, _loaded, file_reads>>

\* lines 46-70: the sheet is read and the list is stored
LoadSucceeds ==
    /\ pc = "serve" /\ Len(load_results) < MaxLoads
    /\ ~_loaded
    /\ \E filepath \in Paths :
          /\ files[filepath].exists
          /\ ~ReadFails(files[filepath])
          /\ file_reads' = Append(file_reads, filepath)
          /\ _reference_list' = ReferenceListOf(files[filepath].df)
          /\ _loaded' = TRUE
          /\ LoadReturns(filepath, ReferenceResult(ReferenceListOf(files[filepath].df)))

\* faulty variant: a load that raised marks the cache as loaded
LoadRaises_MarksLoaded ==
    /\ pc = "serve" /\ Len(load_results) < MaxLoads
    /\ ~_loaded
    /\ \E filepath \in Paths :
          /\ files[filepath].exists
          /\ ReadFails(files[filepath])
          /\ file_reads' = Append(file_reads, filepath)
          /\ LoadReturns(filepath,
                         LoadFailure("LOAD_ERROR",
                                     IF files[filepath].readable THEN "IndexError"
                                     ELSE "read_excel"))
    /\ _loaded' = TRUE
    /\ UNCHANGED _reference_list

\* lines 46-56 and 72-80: read_excel raises, or the sheet has no column
LoadRaises ==
    /\ pc = "serve" /\ Len(load_results) < MaxLoads
    /\ ~_loaded
    /\ \E filepath \in Paths :
          /\ files[filepath].exists
          /\ ReadFails(files[filepath])
          /\ file_reads' = Append(file_reads, filepath)
          /\ LoadReturns(filepath,
                         LoadFailure("LOAD_ERROR",
                                     IF files[filepath].readable THEN "IndexError"
                                     ELSE "read_excel"))
    /\ UNCHANGED <<_reference_list, _loaded>>

NextCache ==
    \/ LoadCached
    \/ LoadFileNotFound
    \/ LoadSucceeds
    \/ LoadRaises

SpecCache == InitCache /\ [][NextCache]_vars

(***************************************************************************)
(* Claims C22 and C23                                                      *)
(***************************************************************************)
\* a result without failure tag
Succeeded(result) == "status" \notin DOMAIN result

\* the calls that returned a loaded list
SuccessfulLoads == {i \in 1..Len(load_results) : Succeeded(load_results[i].result)}

\* C22: the cache is populated at most once: once a call of
\* get_acat_reference has succeeded, every later call, whatever its path,
\* returns the list and the total_count of that first success, reads no file
\* and leaves the cached list as it is.
C22_PopulatedOnce ==
    [][(SuccessfulLoads # {} /\ Len(load_results') = Len(load_results) + 1)
          => /\ load_results'[Len(load_results')].result
                    = load_results[Min(SuccessfulLoads)].result
             /\ file_reads' = file_reads
             /\ _reference_list' = _reference_list]_vars

\* a call after the first success, for another path whose sheet holds a
\* different list
C22_Witness ==
    \E i \in SuccessfulLoads : \E j \in (i + 1)..Len(load_results) :
        /\ load_results[i].result.reference_list # <<>>
        /\ load_results[j].filepath # load_results[i].filepath
        /\ files[load_results[j].filepath].exists
        /\ ~ReadFails(files[load_results[j].filepath])
        /\ ReferenceListOf(files[load_results[j].filepath].df)
               # load_results[i].result.reference_list

NoSurroundingWhitespace(t) == t # <<>> /\ ~IsSpace(t[1]) /\ ~IsSpace(t[Len(t)])

\* C23: the list of a successful load is deduplicated, sorted and trimmed: no
\* entry has surrounding whitespace, the entries ascend, and no two entries
\* are equal, whatever the cells of the column are.
C23_DedupSortedTrimmed ==
    \A n \in SuccessfulLoads :
        LET list == load_results[n].result.reference_list
        IN  /\ \A i \in 1..Len(list) : NoSurroundingWhitespace(list[i])
            /\ \A i \in 1..(Len(list) - 1) : ~StrLess(list[i + 1], list[i])
            /\ \A i, j \in 1..Len(list) : i # j => list[i] # list[j]

\* the part of C23 the code keeps: trimmed, and in non-descending order
C23_SortedTrimmed ==
    \A n \in SuccessfulLoads :
        LET list == load_results[n].result.reference_list
        IN  /\ \A i \in 1..Len(list) : NoSurroundingWhitespace(list[i])
            /\ \A i \in 1..(Len(list) - 1) : ~StrLess(list[i + 1], list[i])

(***************************************************************************)
(* A tool invocation: MCPClientWrapper.call_tool (mcp_client_wrapper.py)   *)
(* and handle_call_tool (mcp_server/server.py)                             *)
(***************************************************************************)
\* the arguments of a call: None, or a dict whose product and version are
\* <<>> when the key is absent and <<value>> when it is present
NoArguments == [pytype |-> "NoneType", product |-> <<>>, version |-> <<>>]

Arguments(product_arg, version_arg) ==
    [pytype |-> "dict", product |-> product_arg, version |-> version_arg]

\* not arguments
IsFalsy(args) ==
    args.pytype = "NoneType" \/ (args.product = <<>> /\ args.version = <<>>)

\* arguments.get(key, ""), key being product or version
get(args, key) == IF args[key] = <<>> THEN "" ELSE args[key][1]

\* what get_acat_reference can return (server.py line 73)
AcatResults ==
    { PyDict(ReferenceResult(<<<<"B">>>>)),
      PyDict(LoadFailure("FILE_NOT_FOUND", MasterFile)),
      PyDict(LoadFailure("LOAD_ERROR", "read_excel")) }

\* what endoflife_lookup can return for a product and a version (server.py
\* lines 84-89, endoflife_lookup.py lines 214-345)
EolResults(product_arg, version_arg) ==
    IF product_arg = ""
    THEN {ToolFailure("error", "INVALID_INPUT", "Product name is required")}
    ELSE IF version_arg = ""
    THEN {ToolFailure("error", "INVALID_INPUT", "Version is required")}
    ELSE { ToolFailure("not_found", "PRODUCT_NOT_FOUND", "Product not found"),
           ToolFailure("error", "TIMEOUT", "Connection timeout after 30 seconds"),
           PyDict([status |-> "success", matched_version |-> "7",
                   match_type |-> "EXACT"]) }

\* the dicts handle_call_tool can turn into text for a name and arguments
HandlerResults(name, args) ==
    IF name = "get_acat_reference" THEN AcatResults
    ELSE IF name = "endoflife_lookup"
    THEN IF IsFalsy(args)
         THEN {ToolFailure("error", "INVALID_INPUT",
                           "Arguments required: product and version")}
         ELSE EolResults(get(args, "product"), get(args, "version"))
    ELSE {ToolFailure("error", "UNKNOWN_TOOL", "Tool not found")}

\* [types.TextContent(type="text", text=str(result))]
TextContent(result) == <<[text |-> repr(result)]>>

\* what session.call_tool does without the handler's answer: it raises, or
\* it returns no content, or a text that is no Python literal
TransportReplies ==
    {r \in ServerReplies :
        \/ r.kind = "raise"
        \/ r.content = <<>>
        \/ literal_eval(r.content[1].text).raised # "none"}

ToolNames == {"get_acat_reference", "endoflife_lookup", "no_such_tool"}

ArgumentValues ==
    {NoArguments}
    \cup {Arguments(p, v) : p \in {<<>>, <<"Redis">>}, v \in {<<>>, <<"">>, <<"7">>}}

InitTool ==
    /\ session \in {"none", "open"}
    /\ tool_name \in ToolNames
    /\ arguments \in ArgumentValues
    /\ tool_reply = <<>>
    /\ tool_outcome = <<>>
    /\ pc = "invoke"
    /\ returned = <<>>
    /\ max_iterations = 0
    /\ iteration = 0
    /\ messages = <<>>
    /\ content = <<>>
    /\ block = 1
    /\ tool_results = <<>>
    /\ completions = <<>>
    /\ executed = <<>>
    /\ version = <<>>
    /\ normalized = <<>>
    /\ target_version = <<>>
    /\ available_versions = <<>>
    /\ match = <<>>
    /\ ApiIdle
    /\ ProductIdle
    /\ CacheIdle
    /\ AgentIdle

ToolFrame ==
    /\ UNCHANGED <<tool_name, arguments, returned>>
    /\ UNCHANGED loopVars
    /\ UNCHANGED <<versionVars, resolveVars, apiVars, productVars, cacheVars,
                   agentVars>>

\* mcp_client_wrapper.py lines 54-55: the client is not connected
CallToolNotConnected ==
    /\ pc = "invoke"
    /\ session = "none"
    /\ tool_outcome' = <<call_tool(session, [kind |-> "raise", content |-> <<>>])>>
    /\ pc' = "done"
    /\ UNCHANGED tool_reply
    /\ ToolFrame

\* server.py lines 66-105: the handler answers the request
HandleCallTool ==
    /\ pc = "invoke"
    /\ session = "open"
    /\ \E result \in HandlerResults(tool_name, arguments) :
          tool_reply' = <<[kind |-> "result", content |-> TextContent(result)]>>
    /\ pc' = "reply"
    /\ UNCHANGED tool_outcome
    /\ ToolFrame

\* mcp_client_wrapper.py line 60: session.call_tool ends without the
\* handler's answer
TransportReply ==
    /\ pc = "invoke"
    /\ session = "open"
    /\ \E r \in TransportReplies : tool_reply' = <<r>>
    /\ pc' = "reply"
    /\ UNCHANGED tool_outcome
    /\ ToolFrame

\* mcp_client_wrapper.py lines 62-83: the reply becomes the result
CallToolReturns ==
    /\ pc = "reply"
    /\ tool_outcome' = <<call_tool(session, tool_reply[1])>>
    /\ pc' = "done"
    /\ UNCHANGED tool_reply
    /\ ToolFrame

NextTool ==
    \/ CallToolNotConnected
    \/ HandleCallTool
    \/ TransportReply
    \/ CallToolReturns

SpecTool == InitTool /\ [][NextTool]_vars

(***************************************************************************)
(* Claim C21                                                               *)
(***************************************************************************)
\* a dict that reports a completed operation: status success, or a loaded
\* reference list
ReportsSuccess(d) ==
    IF "status" \in DOMAIN d.items THEN d.items.status = "success"
    ELSE "reference_list" \in DOMAIN d.items

\* a structured value whose failure, if it is one, is tagged
TaggedResult(d) ==
    /\ d.pytype = "dict"
    /\ ReportsSuccess(d)
          \/ {"status", "error_type", "error_message"} \subseteq DOMAIN d.items

\* the dict the handler answered with
HandlerAnswer == literal_eval(tool_reply[1].content[1].text).value

HandlerAnswered ==
    /\ tool_reply # <<>>
    /\ tool_reply[1].kind = "result"
    /\ tool_reply[1].content # <<>>
    /\ literal_eval(tool_reply[1].content[1].text).raised = "none"

\* C21: every tool invocation, through the server handler and through the
\* client wrapper, connected or not, returns a structured value and never
\* raises to its caller, and every failure result carries status, error_type
\* and error_message.
C21_StructuredNeverRaises ==
    /\ HandlerAnswered => TaggedResult(HandlerAnswer)
    /\ tool_outcome # <<>> =>
          /\ tool_outcome[1].raised = "none"
          /\ TaggedResult(tool_outcome[1].value)

\* the part of C21 the server handler keeps
C21_HandlerStructured == HandlerAnswered => TaggedResult(HandlerAnswer)

(***************************************************************************)
(* agent.main (python_agent/agent.py) with LLMatcher.match                 *)
(* (python_agent/llm_matcher.py) and ExcelWriter                           *)
(* (python_agent/excel_writer.py)                                          *)
(***************************************************************************)
\* CONFIDENCE_THRESHOLD (python_agent/config.py line 27, default 0.7), in
\* hundredths like every confidence below
CONFIDENCE_THRESHOLD == 70

NOT_FOUND == <<"N", "O", "T", " ", "F", "O", "U", "N", "D">>

ERROR == <<"E", "R", "R", "O", "R">>

\* a reference name the matcher can answer with
ReferenceName == <<"R", "e", "d", "i", "s", " ", "6">>

\* the first index after k that holds no whitespace, 0 when there is none
NextNonSpace(s, k) ==
    LET later == {m \in (k + 1)..Len(s) : ~IsSpace(s[m])}
    IN  IF later = {} THEN 0 ELSE Min(later)

\* ^(.+?)\s+([\d.]+.*?)$ : the lengths group 1 can have
NameEnds(s) ==
    {k \in 1..(Len(s) - 1) :
        /\ IsSpace(s[k + 1])
        /\ NextNonSpace(s, k) # 0
        /\ IsDecimal(s[NextNonSpace(s, k)]) \/ s[NextNonSpace(s, k)] = "."}

\* lines 43-51: <<product, version>>, the version <<>> when none is found
extract_product_version(datastore_name) ==
    LET cleaned == StripEdition(datastore_name)
        ends == NameEnds(cleaned)
    IN  IF ends = {} THEN <<datastore_name, <<>>>>
        ELSE <<strip(SubSeq(cleaned, 1, Min(ends))),
               strip(SubSeq(cleaned, NextNonSpace(cleaned, Min(ends)), Len(cleaned)))>>

\* a result of LLMatcher.match (llm_matcher.py lines 87-109); confidence in
\* hundredths
MatchResult(input_datastore, matched_datastore, confidence) ==
    [input_datastore |-> input_datastore, matched_datastore |-> matched_datastore,
     confidence |-> confidence]

\* what LLMatcher.match can return for a datastore: the answer of the model,
\* NOT FOUND when the answer does not parse, ERROR when the request fails
MatchOutcomes(datastore) ==
    { MatchResult(datastore, ReferenceName, CONFIDENCE_THRESHOLD - 1),
      MatchResult(datastore, ReferenceName, CONFIDENCE_THRESHOLD),
      MatchResult(datastore, NOT_FOUND, 0),
      MatchResult(datastore, ERROR, 0) }

\* what mcp_client.call_tool("endoflife_lookup", ...) of a connected client
\* can return
EolReplies ==
    ServerReplies
    \cup {[kind |-> "result", content |-> TextContent(r)] : r \in EolResults("Redis", "7")}

\* line 179: eol_result["input_datastore"] = input_ds
WithInput(result, input_ds) ==
    PyDict([k \in DOMAIN result.items \cup {"input_datastore"} |->
               IF k = "input_datastore" THEN input_ds ELSE result.items[k]])

\* r.get("status")
StatusOf(r) == IF "status" \in DOMAIN r.items THEN r.items.status ELSE "None"

\* lines 163-166: the name the product and the version are taken from
LookupName(m) ==
    IF m.matched_datastore # <<>> /\ m.matched_datastore # NOT_FOUND
          /\ m.matched_datastore # ERROR
    THEN m.matched_datastore
    ELSE m.input_datastore

MatchFile == "datastore_match_results.xlsx"

SuccessFile == "api_success.xlsx"

NotFoundFile == "api_not_found.xlsx"

ErrorsFile == "api_errors.xlsx"

\* a file written by ExcelWriter: one row per result
Written(file, results) == [file |-> file, rows |-> results]

InitAgent ==
    /\ user_datastores \in DatastoreLists
    /\ match_results = <<>>
    /\ low_confidence_matches = <<>>
    /\ eol_results = <<>>
    /\ item = 0
    /\ lookups = <<>>
    /\ output_files = <<>>
    /\ pc = "start"
    /\ session = "open"
    /\ returned = <<>>
    /\ max_iterations = 0
    /\ iteration = 0
    /\ messages = <<>>
    /\ content = <<>>
    /\ block = 1
    /\ tool_results = <<>>
    /\ completions = <<>>
    /\ executed = <<>>
    /\ version = <<>>
    /\ normalized = <<>>
    /\ target_version = <<>>
    /\ available_versions = <<>>
    /\ match = <<>>
    /\ ApiIdle
    /\ ProductIdle
    /\ CacheIdle
    /\ ToolIdle

AgentFrame ==
    /\ UNCHANGED <<user_datastores, session, returned>>
    /\ UNCHANGED <<max_iterations, iteration, messages, content, block, tool_results,
                   completions, executed>>
    /\ UNCHANGED <<versionVars, resolveVars, apiVars, productVars, cacheVars, toolVars>>

\* lines 113-118: the reference list cannot be fetched, main returns
ReferenceUnavailable ==
    /\ pc = "start"
    /\ pc' = "stopped"
    /\ UNCHANGED mainVars
    /\ AgentFrame

\* lines 113-130: the reference list is fetched, phase 1 begins
ReferenceFetched ==
    /\ pc = "start"
    /\ pc' = "match"
    /\ item' = 1
    /\ UNCHANGED <<match_results, low_confidence_matches, eol_results, lookups,
                   output_files>>
    /\ AgentFrame

\* lines 132-141: one datastore is matched
MatchItem ==
    /\ pc = "match"
    /\ item <= Len(user_datastores)
    /\ \E result \in MatchOutcomes(user_datastores[item]) :
          match_results' = Append(match_results, result)
    /\ item' = item + 1
    /\ UNCHANGED <<pc, low_confidence_matches, eol_results, lookups, output_files>>
    /\ AgentFrame

\* lines 144-155: the match results are written and the matches to enrich
\* are selected (as indices of match_results)
WriteMatchResults ==
    /\ pc = "match"
    /\ item > Len(user_datastores)
    /\ output_files' = Append(output_files, Written(MatchFile, match_results))
    /\ low_confidence_matches' =
          SelectSeq([i \in 1..Len(match_results) |-> i],
                    LAMBDA i : match_results[i].confidence < CONFIDENCE_THRESHOLD)
    /\ pc' = "enrich"
    /\ item' = 1
    /\ UNCHANGED <<match_results, eol_results, lookups>>
    /\ AgentFrame

\* the match handled by the running iteration of the second loop
CurrentMatch == match_results[low_confidence_matches[item]]

\* lines 157-170: no version is found, the match is skipped
SkipLookup ==
    /\ pc = "enrich"
    /\ item <= Len(low_confidence_matches)
    /\ extract_product_version(LookupName(CurrentMatch))[2] = <<>>
    /\ item' = item + 1
    /\ UNCHANGED <<pc, match_results, low_confidence_matches, eol_results, lookups,
                   output_files>>
    /\ AgentFrame

\* the call of lines 174-177 and its place in the log
LookupCall(reply) ==
    /\ pc = "enrich"
    /\ item <= Len(low_confidence_matches)
    /\ extract_product_version(LookupName(CurrentMatch))[2] # <<>>
    /\ lookups' = Append(lookups,
                         [match |-> low_confidence_matches[item],
                          product |-> extract_product_version(LookupName(CurrentMatch))[1],
                          version |-> extract_product_version(LookupName(CurrentMatch))[2]])

\* lines 157-192: the lookup of one match returns a dict, which is kept
LookupItem ==
    /\ \E reply \in EolReplies :
          /\ LookupCall(reply)
          /\ call_tool(session, reply).value.pytype = "dict"
          /\ eol_results' = Append(eol_results,
                                   WithInput(call_tool(session, reply).value,
                                             CurrentMatch.input_datastore))
    /\ item' = item + 1
    /\ UNCHANGED <<pc, match_results, low_confidence_matches, output_files>>
    /\ AgentFrame

\* lines 174-179 and 229-232: the lookup returns a value that takes no item
\* assignment, main raises
LookupRaises ==
    /\ \E reply \in EolReplies :
          /\ LookupCall(reply)
          /\ call_tool(session, reply).value.pytype # "dict"
    /\ pc' = "raised"
    /\ UNCHANGED <<match_results, low_confidence_matches, eol_results, item,
                   output_files>>
    /\ AgentFrame

\* [r for r in eol_results if r.get("status") == status]
WithStatus(results, status) == SelectSeq(results, LAMBDA r : StatusOf(r) = status)

\* lines 200-216: a category file is written when its list is not empty
WriteIfAny(file, results) ==
    IF results = <<>> THEN <<>> ELSE <<Written(file, results)>>

\* lines 194-223: the lookup results are written by category
WriteEolResults ==
    /\ pc = "enrich"
    /\ item > Len(low_confidence_matches)
    /\ output_files' = output_files
                          \o WriteIfAny(SuccessFile, WithStatus(eol_results, "success"))
                          \o WriteIfAny(NotFoundFile, WithStatus(eol_results, "not_found"))
                          \o WriteIfAny(ErrorsFile, WithStatus(eol_results, "error"))
    /\ pc' = "done"
    /\ UNCHANGED <<match_results, low_confidence_matches, eol_results, item, lookups>>
    /\ AgentFrame

\* lines 225-227: an interrupt ends main; what the locals held is kept here
\* as the record of what the run had obtained
Interrupt ==
    /\ pc \in {"start", "match", "enrich"}
    /\ pc' = "interrupted"
    /\ UNCHANGED mainVars
    /\ AgentFrame

NextAgent ==
    \/ ReferenceUnavailable
    \/ ReferenceFetched
    \/ MatchItem
    \/ WriteMatchResults
    \/ SkipLookup
    \/ LookupItem
    \/ LookupRaises
    \/ WriteEolResults
    \/ Interrupt

SpecAgent == InitAgent /\ [][NextAgent]_vars

(***************************************************************************)
(* Properties of agent.main (specification SpecAgent) and of the results   *)
(* of a run.                                                               *)
(***************************************************************************)
\* the rows of every file written so far under the given name
RowsWritten(file) ==
    UNION {{output_files[f].rows[k] : k \in 1..Len(output_files[f].rows)} :
              f \in {g \in 1..Len(output_files) : output_files[g].file = file}}

\* C25: an interrupt stops the run without losing the results accumulated so
\* far: after it every match result and every lookup result the run had
\* obtained is in a written file (main returns nothing).
C25_InterruptKeepsResults ==
    pc = "interrupted" =>
        /\ \A k \in 1..Len(match_results) : match_results[k] \in RowsWritten(MatchFile)
        /\ \A k \in 1..Len(eol_results) :
              eol_results[k] \in RowsWritten(SuccessFile) \cup RowsWritten(NotFoundFile)
                                    \cup RowsWritten(ErrorsFile)

\* len() of a parsed list
ListLen(value) == IF value.repr = <<"[", "]">> THEN 0 ELSE 1

\* C26: the list returned by run_agentic_loop with status success holds
\* exactly one record for each input datastore.
C26_OneRecordPerInput ==
    (returned # <<>> /\ Result.status = "success") =>
        ListLen(Result.results) = Len(user_datastores)

\* C26, the part on agent.main: once the matching phase is over match_results
\* holds one record per input datastore, in the order of the input.
C26_MainOneRecordPerInput ==
    pc \in {"enrich", "done", "raised"} =>
        /\ Len(match_results) = Len(user_datastores)
        /\ \A k \in 1..Len(user_datastores) :
              match_results[k].input_datastore = user_datastores[k]

\* the number of endoflife_lookup calls made for the k-th match result
LookupsFor(k) == Cardinality({i \in 1..Len(lookups) : lookups[i].match = k})

\* C27: at the end of main every match result below the threshold has
\* triggered exactly one endoflife_lookup call and every other match result
\* none.
C27_ThresholdDecides ==
    pc = "done" =>
        \A k \in 1..Len(match_results) :
            LookupsFor(k) = IF match_results[k].confidence < CONFIDENCE_THRESHOLD
                            THEN 1 ELSE 0

\* C27, the part that holds: no match result at or above the threshold
\* triggers a call, and none triggers more than one.
C27_NoLookupAtOrAbove ==
    \A k \in 1..Len(match_results) :
        /\ LookupsFor(k) <= 1
        /\ match_results[k].confidence >= CONFIDENCE_THRESHOLD => LookupsFor(k) = 0

(***************************************************************************)
(* The LATEST fallback of find_closest_version (specification SpecResolve).*)
(***************************************************************************)
\* float(part) succeeds: an optionally signed run of digits with whitespace
\* around it
ReadsAsNumber(part) ==
    LET t == strip(part)
        digits == IF t # <<>> /\ t[1] \in {"-", "+"} THEN Tail(t) ELSE t
    IN  digits # <<>> /\ AllDecimal(digits)

\* the label can be read as major + minor/100
Readable(v) ==
    /\ ReadsAsNumber(FirstPart(v))
    /\ PartCount(v) > 1 => ReadsAsNumber(SecondPart(v))

\* the list is not empty and holds neither the target nor a candidate of the
\* target's major version
NoExactNoMajor ==
    /\ Len(match) = 1
    /\ available_versions # <<>>
    /\ target_version \notin Candidates
    /\ SameMajorIndices = {}

\* the first candidate in list order, tagged LATEST
FirstAsLatest == [value |-> <<available_versions[1]>>, kind |-> "LATEST"]

\* C31: when the list holds no exact and no same-major candidate and the
\* target's major component is not numeric, find_closest_version returns
\* the first candidate in list order tagged LATEST (it returns, it does not
\* raise).
C31_NonNumericTargetLatest ==
    (NoExactNoMajor /\ ~ReadsAsNumber(FirstPart(target_version))) => Match = FirstAsLatest

C31_Witness ==
    /\ NoExactNoMajor
    /\ target_version = <<"x">>
    /\ available_versions = <<<<"1", "5">>, <<"1", "4">>>>
    /\ Match = FirstAsLatest

\* C38: when the list holds no exact and no same-major candidate, one
\* candidate that cannot be read as a number makes the result the first
\* candidate tagged LATEST, also for a numeric target among numeric
\* candidates; and CLOSEST is returned only when the target and every
\* candidate are numeric.
C38_OneUnreadableGivesLatest ==
    /\ (NoExactNoMajor /\ \E c \in Candidates : ~Readable(c)) => Match = FirstAsLatest
    /\ (Len(match) = 1 /\ Match.kind = "CLOSEST") =>
          /\ Readable(target_version)
          /\ \A c \in Candidates : Readable(c)

C38_Witness ==
    /\ NoExactNoMajor
    /\ target_version = <<"9", ".", "9">>
    /\ available_versions = <<<<"1", "5">>, <<"x">>, <<"1", "0">>>>
    /\ Match = FirstAsLatest

\* C37, on find_closest_version alone: for a list that is not empty the
\* returned value is a member of the list, for every target.
C37_ValueIsCandidate ==
    (Len(match) = 1 /\ available_versions # <<>>) =>
        /\ Match.value # <<>>
        /\ Match.value[1] \in Candidates

(***************************************************************************)
(* Resolution inside endoflife_lookup (specification SpecLookup).          *)
(***************************************************************************)
\* the items of the payload of a 200 response
PayloadItemsOf(resp) == resp.data[1].items

\* call_endoflife_api returned a 200 payload that holds a labelled record
LabelledPayload ==
    /\ ApiEnded
    /\ ApiResponse.status = "success"
    /\ \E i \in 1..Len(PayloadItemsOf(ApiResponse)) :
          /\ PayloadItemsOf(ApiResponse)[i].pytype = "dict"
          /\ HasCycle(PayloadItemsOf(ApiResponse)[i])

UnreachableOutcomes == {"VERSION_NOT_FOUND", "VERSION_DATA_NOT_FOUND"}

\* C37 as stated: a 200 payload with at least one labelled record always
\* leads to status success, and the outcomes VERSION_NOT_FOUND and
\* VERSION_DATA_NOT_FOUND are never returned.
C37_LabelledPayloadSucceeds ==
    LookupEnded =>
        /\ LabelledPayload => Lookup.status = "success"
        /\ Lookup.error_type \notin UnreachableOutcomes

\* C37 amended: a 200 payload whose items are all records, at least one of
\* them labelled, always leads to status success with a matched version
\* that is one of the payload's labels; VERSION_NOT_FOUND and
\* VERSION_DATA_NOT_FOUND are never returned; and find_closest_version
\* returns a member of the list it was given.
C37_RecordsPayloadSucceeds ==
    LookupEnded =>
        /\ (LabelledPayload /\ AllRecords(PayloadItemsOf(ApiResponse))) =>
              /\ Lookup.status = "success"
              /\ \E i \in 1..Len(PayloadItemsOf(ApiResponse)) :
                    /\ HasCycle(PayloadItemsOf(ApiResponse)[i])
                    /\ Lookup.matched_version = PayloadItemsOf(ApiResponse)[i].cycle
        /\ Lookup.error_type \notin UnreachableOutcomes
        /\ Len(match) = 1 =>
              \E i \in 1..Len(available_versions) : Match.value = <<available_versions[i]>>

C37_Witness ==
    /\ LookupEnded
    /\ LabelledPayload
    /\ PayloadItemsOf(ApiResponse) = <<ReleaseRecord(<<>>), ReleaseRecord(<<<<"1", "5">>>>)>>
    /\ normalized = <<<<"x">>>>
    /\ Lookup.status = "success"
    /\ Lookup.matched_version = <<<<"1", "5">>>>
    /\ Lookup.match_type = "LATEST"

(***************************************************************************)
(* The waits of call_endoflife_api (specification SpecLookup).             *)
(***************************************************************************)
IsSleep(e) == e.event = "sleep"

\* zero-based index, within the call, of the request logged at position j
AttemptIndex(j) == Cardinality({k \in 1..j : api_log[k].event = "request"}) - 1

\* C32: every wait follows a failed request and its length depends only on
\* the kind of that failure and on the zero-based index i of the request
\* within the call: 5*(i+1) seconds after a 429 response, 2^i seconds after
\* a timeout or a connection error, whatever the earlier failures were.
C32_WaitByAttemptIndex ==
    \A j \in 1..Len(api_log) :
        IsSleep(api_log[j]) =>
            /\ j > 1
            /\ api_log[j - 1].event = "request"
            /\ IsRateLimit(api_log[j - 1]) =>
                  api_log[j].wait_time = 5 * (AttemptIndex(j - 1) + 1)
            /\ (IsTimeout(api_log[j - 1]) \/ IsConnectionError(api_log[j - 1])) =>
                  api_log[j].wait_time = Pow2(AttemptIndex(j - 1))
            /\ \/ IsRateLimit(api_log[j - 1])
               \/ api_log[j - 1].raised \in {"Timeout", "RequestException"}

C32_Witness ==
    /\ max_retries = 3
    /\ Len(api_log) = 5
    /\ IsRateLimit(api_log[1])
    /\ api_log[2] = Sleep(5)
    /\ IsTimeout(api_log[3])
    /\ api_log[4] = Sleep(2)
    /\ IsConnectionError(api_log[5])
    /\ ApiEnded

\* C33: call_endoflife_api never waits after its last permitted attempt:
\* when the call has ended, every wait in its log is followed by another
\* request.
C33_EveryWaitFollowedByRequest ==
    ApiEnded =>
        \A j \in 1..Len(api_log) :
            IsSleep(api_log[j]) =>
                (j < Len(api_log) /\ api_log[j + 1].event = "request")

\* C33, the part that holds: a wait after a timeout or a request error is
\* followed by another request.
C33_BackoffFollowedByRequest ==
    ApiEnded =>
        \A j \in 2..Len(api_log) :
            (IsSleep(api_log[j]) /\ ~IsRateLimit(api_log[j - 1])) =>
                (j < Len(api_log) /\ api_log[j + 1].event = "request")

(***************************************************************************)
(* The transcript and the return value of run_agentic_loop (specification  *)
(* Spec).                                                                  *)
(***************************************************************************)
\* the role of the i-th turn when the roles alternate from a user turn
RoleAt(i) == IF i % 2 = 1 THEN "user" ELSE "assistant"

\* C34: in every state the roles of the transcript alternate user,
\* assistant, user, ... from the initial user turn; at every completion
\* call, after k completed tool-use iterations, the transcript has exactly
\* 1 + 2k turns and ends with a user turn, also when a tool_use response
\* held no tool_use block.
C34_RolesAlternate ==
    /\ \A i \in 1..Len(messages) : messages[i].role = RoleAt(i)
    /\ messages[1].content = UserPrompt
    /\ pc = "call" =>
          /\ Len(messages) = 1 + 2 * iteration
          /\ messages[Len(messages)].role = "user"

C34_Witness ==
    /\ pc = "call"
    /\ iteration = 2
    /\ Len(messages) = 5
    /\ messages[3].content = <<>>
    /\ ToolUseCount(messages[2].content) = 0
    /\ messages[5].content # <<>>

\* the value is a Python list: the empty list of an error return or a
\* parsed JSON array
IsListValue(v) == IF DOMAIN v = {} THEN TRUE ELSE v.pytype = "list"

\* C35: every value run_agentic_loop returns has a results field that holds
\* a list.
C35_ResultsAlwaysList ==
    returned # <<>> =>
        /\ "results" \in DOMAIN Result
        /\ IsListValue(Result.results)

\* C35, the part that holds: every returned value has a results list except
\* the two error returns of _extract_final_answer that carry raw_response
\* (parse failure and a payload that is no list).
C35_ResultsUnlessRawResponse ==
    returned # <<>> =>
        IF "raw_response" \in DOMAIN Result
        THEN Result.status = "error" /\ "results" \notin DOMAIN Result
        ELSE "results" \in DOMAIN Result /\ IsListValue(Result.results)

\* C36: the outcome of _extract_final_answer depends only on the first text
\* block of the final response: it is the outcome for that block alone, so
\* it is error when that block holds no parseable array, whatever later
\* blocks hold; a response without a text block gives error with an empty
\* results list.
C36_FirstTextBlockDecides ==
    (pc = "done" /\ LastStop = "end_turn") =>
        LET i == FirstTextBlock(content)
        IN  IF i = 0
            THEN /\ Result.status = "error"
                 /\ "results" \in DOMAIN Result
                 /\ Result.results = <<>>
            ELSE /\ Result = _extract_final_answer(<<content[i]>>)
                 /\ ~PayloadIsList(content[i].text) => Result.status = "error"
                 /\ PayloadIsList(content[i].text) => Result.status = "success"

C36_Witness ==
    /\ pc = "done"
    /\ LastStop = "end_turn"
    /\ content = <<TextBlock(Commentary), TextBlock(GoodText)>>
    /\ Result.status = "error"
    /\ Result.raw_response = Commentary

(***************************************************************************)
(* Failed loads of the reference list (specification SpecCache).           *)
(***************************************************************************)
\* the step is a call of get_acat_reference
IsLoadCall == Len(load_results') = Len(load_results) + 1

\* the call of the step
NewLoad == load_results'[Len(load_results')]

\* C40: a failed load leaves the cache as it was, unloaded with an empty
\* list, and returns an error-tagged result with an empty reference_list
\* and total_count 0; a call made while the cache is unloaded attempts the
\* load (it reads the file when there is one); and the cache is loaded
\* exactly when a load has succeeded.
C40_FailedLoadLeavesCache ==
    /\ [](_loaded <=> SuccessfulLoads # {})
    /\ [](~_loaded => _reference_list = <<>>)
    /\ [][(IsLoadCall /\ ~Succeeded(NewLoad.result)) =>
             /\ ~_loaded /\ ~_loaded'
             /\ _reference_list = <<>> /\ _reference_list' = <<>>
             /\ NewLoad.result.status = "error"
             /\ NewLoad.result.error_type \in {"FILE_NOT_FOUND", "LOAD_ERROR"}
             /\ NewLoad.result.reference_list = <<>>
             /\ NewLoad.result.total_count = 0]_vars
    /\ [][(IsLoadCall /\ ~_loaded) =>
             IF files[NewLoad.filepath].exists
             THEN file_reads' = Append(file_reads, NewLoad.filepath)
             ELSE NewLoad.result.error_type = "FILE_NOT_FOUND"]_vars

\* two failed loads of the same file, each reading it, then a successful
\* load of another file
C40_Witness ==
    /\ Len(load_results) = 3
    /\ load_results[1].filepath = MasterFile
    /\ load_results[2].filepath = MasterFile
    /\ ~Succeeded(load_results[1].result)
    /\ load_results[2].result.error_type = "LOAD_ERROR"
    /\ file_reads = <<MasterFile, MasterFile, OtherFile>>
    /\ Succeeded(load_results[3].result)
    /\ load_results[3].result.reference_list # <<>>
    /\ _loaded

(***************************************************************************)
(* The output categories of agent.main (specification SpecAgent).          *)
(***************************************************************************)
CategoryFiles == {SuccessFile, NotFoundFile, ErrorsFile}

\* the category files that hold the result
CategoriesOf(r) == {f \in CategoryFiles : r \in RowsWritten(f)}

\* C39: at the end of main every lookup result is in exactly one of the
\* three categories success, not_found, error, whatever the tool client
\* returned.
C39_EveryResultInOneCategory ==
    pc = "done" =>
        \A k \in 1..Len(eol_results) : Cardinality(CategoriesOf(eol_results[k])) = 1

\* C39, the part that holds: no lookup result is in two categories, and a
\* result is in a category exactly when its status is success, not_found or
\* error.
C39_CategoriesDisjoint ==
    pc = "done" =>
        \A k \in 1..Len(eol_results) :
            /\ Cardinality(CategoriesOf(eol_results[k])) <= 1
            /\ CategoriesOf(eol_results[k]) # {}
                  <=> StatusOf(eol_results[k]) \in {"success", "not_found", "error"}

====
